---- MODULE Spec2Model ----
(***************************************************************************)
(* Versioned Storage Service: the PostgreSQL backed key-value engine       *)
(* (rust/impls/src/postgres_store.rs).  The table vss_db is modelled for   *)
(* one (user_token, store_id); a row is (key, value, version).  Requests   *)
(* run as processes; every await on the database is one step, so that the  *)
(* statements of concurrent requests interleave.  The database is          *)
(* PostgreSQL at its default isolation level (READ COMMITTED): a statement *)
(* sees the committed rows and the writes of its own transaction, a write  *)
(* locks its row until the transaction ends.                               *)
(***************************************************************************)
EXTENDS Integers, Sequences, FiniteSets, Bags, TLC

(***************************************************************************)
(* Bounds.  I64_MAX stands for i64::MAX.  The versions a request carries   *)
(* are -2 (standing for every version below -1, which the code treats as   *)
(* it treats a positive one), -1, 0 and the positive versions up to        *)
(* I64_MAX.                                                                *)
(***************************************************************************)
I64_MAX == 6
MaxItems == 2

Versions == (-2)..I64_MAX

(***************************************************************************)
(* Program constants.                                                      *)
(***************************************************************************)
INITIAL_RECORD_VERSION == 1
LIST_KEY_VERSIONS_MAX_PAGE_SIZE == 100
I32_MAX == 2147483647

(* Strings are sequences of character codes: the listing compares and     *)
(* pattern-matches keys.  "vss_global_version" and "a".                    *)
GLOBAL_VERSION_KEY ==
    <<118, 115, 115, 95, 103, 108, 111, 98, 97, 108, 95, 118, 101, 114, 115, 105, 111, 110>>
KEY_A == <<97>>
EmptyString == <<>>
Keys == {KEY_A, GLOBAL_VERSION_KEY}

(* Values are opaque bytes; EmptyBytes is Bytes::new().                    *)
EmptyBytes == ""
Values == {"A", EmptyBytes}

(* Option<T>: None is the empty sequence, Some(x) the sequence <<x>>.      *)
None == <<>>
Some(x) == <<x>>
IsSome(o) == o # <<>>
Unwrap(o) == o[1]

Procs == {"p1", "p2"}

(***************************************************************************)
(* Requests' items.                                                        *)
(***************************************************************************)
KeyValue(k, v, ver) == [key |-> k, value |-> v, version |-> ver]
build_vss_record(kv) == [key |-> kv.key, value |-> kv.value, version |-> kv.version]

(* Faulty variants of the definitions below are named after the definition *)
(* they stand in for; each states one fault a property must detect.        *)
(* wrapping_add: i64's wrapping_add in place of saturating_add.            *)
wrapping_add(v, n) == IF v + n > I64_MAX THEN v + n - 2 * (I64_MAX + 1) ELSE v + n

(* checked_add_or_zero: the sum falls to 0 where i64 overflows.             *)
checked_add_or_zero(v, n) == IF v + n > I64_MAX THEN 0 ELSE v + n

saturating_add(v, n) == IF v + n > I64_MAX THEN I64_MAX ELSE v + n

(***************************************************************************)
(* The table as a statement sees it: a function from the keys that have a  *)
(* row to [value, version].  A statement returns its row count and the     *)
(* write it made, if any.                                                  *)
(***************************************************************************)
RowOf(v, ver) == [value |-> v, version |-> ver]
NoWrite == <<>>
WriteRow(k, v, ver) == <<[key |-> k, deleted |-> FALSE, value |-> v, version |-> ver]>>
DeleteRow(k) == <<[key |-> k, deleted |-> TRUE, value |-> EmptyBytes, version |-> 0]>>
StmtResult(n, kind, w) == [num_rows |-> n, kind |-> kind, write |-> w]

(* Fault: the upsert stores the request's version, the sentinel -1.        *)
execute_non_conditional_upsert_request_version(t, vss_record) ==
    StmtResult(1, "non_conditional_upsert",
               WriteRow(vss_record.key, vss_record.value, vss_record.version))

(* Fault: the upsert of a stored key stores the successor of its version.  *)
execute_non_conditional_upsert_next_version(t, vss_record) ==
    StmtResult(1, "non_conditional_upsert",
               WriteRow(vss_record.key, vss_record.value,
                        IF vss_record.key \in DOMAIN t
                        THEN t[vss_record.key].version + 1
                        ELSE INITIAL_RECORD_VERSION))

execute_non_conditional_upsert(t, vss_record) ==
    StmtResult(1, "non_conditional_upsert",
               WriteRow(vss_record.key, vss_record.value, INITIAL_RECORD_VERSION))

(* Fault: the insert lacks ON CONFLICT DO NOTHING's effect and overwrites.  *)
execute_conditional_insert_overwrites(t, vss_record) ==
    StmtResult(1, "conditional_insert",
               WriteRow(vss_record.key, vss_record.value, INITIAL_RECORD_VERSION))

execute_conditional_insert(t, vss_record) ==
    IF vss_record.key \in DOMAIN t
    THEN StmtResult(0, "conditional_insert", NoWrite)
    ELSE StmtResult(1, "conditional_insert",
                    WriteRow(vss_record.key, vss_record.value, INITIAL_RECORD_VERSION))

(* Fault: the update creates the row at the requested version when the     *)
(* key has none.                                                           *)
execute_conditional_update_or_insert(t, vss_record) ==
    IF vss_record.key \notin DOMAIN t
    THEN StmtResult(1, "conditional_update",
                    WriteRow(vss_record.key, vss_record.value, vss_record.version))
    ELSE IF t[vss_record.key].version = vss_record.version
         THEN StmtResult(1, "conditional_update",
                         WriteRow(vss_record.key, vss_record.value,
                                  saturating_add(vss_record.version, 1)))
         ELSE StmtResult(0, "conditional_update", NoWrite)

(* Fault: the update's WHERE clause lacks `version = $7`.                  *)
execute_conditional_update_any_version(t, vss_record) ==
    IF vss_record.key \in DOMAIN t
    THEN StmtResult(1, "conditional_update",
                    WriteRow(vss_record.key, vss_record.value,
                             saturating_add(vss_record.version, 1)))
    ELSE StmtResult(0, "conditional_update", NoWrite)

execute_conditional_update(t, vss_record) ==
    IF vss_record.key \in DOMAIN t /\ t[vss_record.key].version = vss_record.version
    THEN StmtResult(1, "conditional_update",
                    WriteRow(vss_record.key, vss_record.value,
                             saturating_add(vss_record.version, 1)))
    ELSE StmtResult(0, "conditional_update", NoWrite)

execute_put_object_query(t, vss_record) ==
    IF vss_record.version = -1
    THEN execute_non_conditional_upsert(t, vss_record)
    ELSE IF vss_record.version = 0
         THEN execute_conditional_insert(t, vss_record)
         ELSE execute_conditional_update(t, vss_record)

execute_non_conditional_delete(t, vss_record) ==
    IF vss_record.key \in DOMAIN t
    THEN StmtResult(1, "non_conditional_delete", DeleteRow(vss_record.key))
    ELSE StmtResult(0, "non_conditional_delete", NoWrite)

(* Fault: the conditional delete lacks `AND version = $4`.                  *)
execute_conditional_delete_any_version(t, vss_record) ==
    IF vss_record.key \in DOMAIN t
    THEN StmtResult(1, "conditional_delete", DeleteRow(vss_record.key))
    ELSE StmtResult(0, "conditional_delete", NoWrite)

execute_conditional_delete(t, vss_record) ==
    IF vss_record.key \in DOMAIN t /\ t[vss_record.key].version = vss_record.version
    THEN StmtResult(1, "conditional_delete", DeleteRow(vss_record.key))
    ELSE StmtResult(0, "conditional_delete", NoWrite)

execute_delete_object_query(t, vss_record) ==
    IF vss_record.version = -1
    THEN execute_non_conditional_delete(t, vss_record)
    ELSE execute_conditional_delete(t, vss_record)

(***************************************************************************)
(* A transaction's pending writes: a function from the keys it wrote to    *)
(* the pending row (or its deletion).  Overlay is the table with pending   *)
(* writes applied: what the transaction sees, and what a commit installs.  *)
(***************************************************************************)
NoWrites == [k \in {} |-> 0]
AddWrite(w, write) ==
    IF write = NoWrite THEN w
    ELSE [k \in DOMAIN w \cup {write[1].key} |->
            IF k = write[1].key THEN write[1] ELSE w[k]]

Overlay(t, w) ==
    LET deleted == {k \in DOMAIN w : w[k].deleted}
        written == {k \in DOMAIN w : ~w[k].deleted}
    IN [k \in (DOMAIN t \cup written) \ deleted |->
          IF k \in written THEN RowOf(w[k].value, w[k].version) ELSE t[k]]

(* Fault: the records are written outside a transaction, so that a batch   *)
(* that stops short has applied its first statements: here, a commit that  *)
(* installs one of the pending writes.                                     *)
Commit_first_write(t, w) ==
    IF DOMAIN w = {} THEN t
    ELSE LET k == CHOOSE x \in DOMAIN w : TRUE
         IN Overlay(t, [y \in {k} |-> w[k]])
Commit(t, w) == Overlay(t, w)
(* Fault: the rollback keeps the transaction's writes.                     *)
Rollback_keeps_writes(t, w) == Overlay(t, w)
Rollback(t, w) == t

(***************************************************************************)
(* The listing query's comparisons.  StrLess is the byte order of the keys *)
(* (key > $3, ORDER BY key); Like is SQL's LIKE: % matches any run of      *)
(* characters, _ any one character, \ takes the next character literally.  *)
(***************************************************************************)
RECURSIVE StrLess(_, _)
StrLess(s, u) ==
    IF u = <<>> THEN FALSE
    ELSE IF s = <<>> THEN TRUE
    ELSE IF s[1] # u[1] THEN s[1] < u[1]
    ELSE StrLess(Tail(s), Tail(u))

PERCENT == 37
UNDERSCORE == 95
BACKSLASH == 92

RECURSIVE Like(_, _)
Like(s, pat) ==
    IF pat = <<>> THEN s = <<>>
    ELSE IF pat[1] = PERCENT
         THEN Like(s, Tail(pat)) \/ (s # <<>> /\ Like(Tail(s), pat))
    ELSE IF pat[1] = UNDERSCORE
         THEN s # <<>> /\ Like(Tail(s), Tail(pat))
    ELSE IF pat[1] = BACKSLASH /\ Len(pat) > 1
         THEN s # <<>> /\ s[1] = pat[2] /\ Like(Tail(s), Tail(Tail(pat)))
    ELSE s # <<>> /\ s[1] = pat[1] /\ Like(Tail(s), Tail(pat))

(* The keys of S in ascending order.                                       *)
RECURSIVE SortKeys(_)
SortKeys(S) ==
    IF S = {} THEN <<>>
    ELSE LET m == CHOOSE k \in S : \A o \in S \ {k} : StrLess(k, o)
         IN <<m>> \o SortKeys(S \ {m})

Min(a, b) == IF a < b THEN a ELSE b
Take(s, n) == SubSeq(s, 1, Min(n, Len(s)))

(* SELECT key, version ... WHERE key > $3 AND key LIKE $4 ORDER BY key     *)
(* LIMIT $5, on table t.                                                   *)
ListQueryRows(t, page_token_param, key_like, limit) ==
    LET hit == {k \in DOMAIN t : StrLess(page_token_param, k) /\ Like(k, key_like)}
        ordered == SortKeys(hit)
    IN [i \in 1..Len(Take(ordered, limit)) |->
          KeyValue(ordered[i], EmptyBytes, t[ordered[i]].version)]

(* Fault: the listing lacks the filter of the reserved key.               *)
FilterKeyVersions_keeps_all(rows) == rows

(* rows.iter().filter(key != GLOBAL_VERSION_KEY).map(..).collect()         *)
FilterKeyVersions(rows) == SelectSeq(rows, LAMBDA kv : kv.key # GLOBAL_VERSION_KEY)

(* Fault: an empty page carries no next_page_token.                        *)
NextPageToken_absent_when_empty(key_versions) ==
    IF key_versions # <<>> THEN Some(key_versions[Len(key_versions)].key)
    ELSE None

NextPageToken(key_versions) ==
    IF key_versions # <<>> THEN Some(key_versions[Len(key_versions)].key)
    ELSE Some(EmptyString)

(* Fault: get lacks the branch for the reserved key.                       *)
GetResponse_no_reserved_branch(t, key) ==
    IF key \in DOMAIN t
    THEN [result |-> "ok", kvs |-> <<KeyValue(key, t[key].value, t[key].version)>>]
    ELSE [result |-> "NoSuchKey", kvs |-> <<>>]

(* SELECT key, value, version ... WHERE key = $3, and the response of get. *)
GetResponse(t, key) ==
    IF key \in DOMAIN t
    THEN [result |-> "ok", kvs |-> <<KeyValue(key, t[key].value, t[key].version)>>]
    ELSE IF key = GLOBAL_VERSION_KEY
         THEN [result |-> "ok", kvs |-> <<KeyValue(GLOBAL_VERSION_KEY, EmptyBytes, 0)>>]
         ELSE [result |-> "NoSuchKey", kvs |-> <<>>]

(* Fault: the global version is taken as the greatest stored version.      *)
GlobalVersionOf_greatest(t) ==
    IF DOMAIN t = {} THEN 0
    ELSE CHOOSE v \in {t[k].version : k \in DOMAIN t} :
            \A k \in DOMAIN t : t[k].version <= v

(* get_response.value.unwrap().version of the get of GLOBAL_VERSION_KEY.   *)
GlobalVersionOf(t) == GetResponse(t, GLOBAL_VERSION_KEY).kvs[1].version

(***************************************************************************)
(* State.                                                                  *)
(*   db            the committed rows of vss_db                            *)
(*   pc            where each request's handler stands                     *)
(*   txn           the pending writes of each handler's open transaction   *)
(*   batch_results the row counts the handler has collected                *)
(*   n_items       how many items of its request put has executed          *)
(*   item_count    the lengths of transaction_items and delete_items of    *)
(*                 the put request, where the request fixes them before    *)
(*                 its items are drawn                                     *)
(*   list_req      list_key_versions' request and its global_version local *)
(*   stmt          what the handler's transaction has executed: its last   *)
(*                 statement, and the keys it wrote unconditionally or     *)
(*                 deleted                                                 *)
(*   last          the response of the last request that returned          *)
(*   http          the service's handling of the HTTP request in hand: how *)
(*                 far handle_request has come, the authorizer's           *)
(*                 user_token, the user_token given to the engine, and the *)
(*                 HTTP response                                           *)
(* The server around the handlers, which the handlers' actions leave to    *)
(* the specification that has them run under it:                           *)
(*   server        main's accept loop: whether it runs, the connections    *)
(*                 whose tasks the runtime holds, and whether the runtime  *)
(*                 has been dropped                                        *)
(*   pool          the connection pool: its idle connections and the ones  *)
(*                 each request holds                                      *)
(*   vss_db        the table vss_db with the rows of every user_token and  *)
(*                 store_id, where a specification has more than the one   *)
(*                 store db                                                *)
(*   client        a client's iteration over the pages of a listing: its   *)
(*                 key_prefix and page_size, the page_token it sends next, *)
(*                 the keys it has received, and whether it has stopped    *)
(* History variables, which no handler reads:                              *)
(*   cdb           the store made of the writes of the requests that       *)
(*                 returned ok, a whole request at a time                  *)
(*   hist          the records each handler's request has executed         *)
(*   seen          the values cdb took while a list_key_versions stood     *)
(*                 between its two reads                                   *)
(*   concurrent    whether a put began while another put was running       *)
(*   n_success     the conditional puts of KEY_A that succeeded            *)
(***************************************************************************)
VARIABLES db, pc, txn, batch_results, n_items, item_count, list_req, stmt, last, http,
          server, pool, vss_db, client,
          cdb, hist, seen, concurrent, n_success

pvars == <<db, pc, txn, batch_results, n_items, item_count, list_req, stmt, last, http>>
pvars_but_last == <<db, pc, txn, batch_results, n_items, item_count, list_req, stmt, http>>
svars == <<server, pool, vss_db, client>>
hvars == <<svars, cdb, hist, seen, concurrent, n_success>>
vars == <<db, pc, txn, batch_results, n_items, item_count, list_req, stmt, last, http,
          server, pool, vss_db, client, cdb, hist, seen, concurrent, n_success>>

NoStmt == [kind |-> "none", key |-> EmptyString, num_rows |-> 0, negative |-> FALSE,
           unconditional |-> {}]
NoServer == [accepting |-> TRUE, stopped |-> FALSE, connections |-> {}, reopened |-> 0,
             signal |-> "none",
             in_flight |-> {}, responded |-> {}]
NoIteration == [started |-> FALSE, done |-> FALSE, key_prefix |-> None, page_size |-> None,
                page_token |-> None, received |-> <<>>]
(* The pool as Pool::builder().build(manager) leaves it: every connection  *)
(* idle, no request holding one or standing at pool.get().                 *)
PoolSize == 1
NewPool == [idle |-> PoolSize, held |-> [p \in Procs |-> 0],
            at |-> [p \in Procs |-> "none"], waiting |-> [p \in Procs |-> FALSE]]
NoItemCount == [transaction_items |-> 0, delete_items |-> 0]
NoListReq == [key_prefix |-> None, page_token |-> None, page_size |-> None,
              global_version |-> None]
NoHttpResponse == [status |-> 0, error_code |-> "none", body |-> "none"]
NoHttp == [stage |-> "none", endpoint |-> "none", user_token |-> None,
           engine_user_token |-> None, response |-> NoHttpResponse]
NoResp == [op |-> "none", result |-> "none", kvs |-> <<>>,
           next_page_token |-> None, global_version |-> None]
Resp(op, result) == [op |-> op, result |-> result, kvs |-> <<>>,
                     next_page_token |-> None, global_version |-> None]

EmptyTable == [k \in {} |-> 0]
PutPcs == {"put_records", "put_deletes"}

(* What the statements of p's transaction see, and who holds a row.        *)
(* Fault: a statement sees the committed rows only, not the writes its     *)
(* transaction has made.                                                   *)
TxView_committed_only(p) == db
TxView(p) == Overlay(db, txn[p])
LockedByOther(p, k) == \E q \in Procs \ {p} : k \in DOMAIN txn[q]

(* Fault: statements do not wait for rows other transactions hold.        *)
Blocked_never(p, vss_record, res) == FALSE

(* A statement waits for the transaction that holds the row it is about to *)
(* write: an INSERT for any holder of its key (the unique index), an       *)
(* UPDATE or DELETE when the committed row satisfies its WHERE clause.     *)
Blocked(p, vss_record, res) ==
    /\ LockedByOther(p, vss_record.key)
    /\ (res.num_rows = 1 \/ res.kind = "conditional_insert")

Unconditional(res) ==
    res.num_rows = 1 /\ res.kind \in {"non_conditional_upsert", "non_conditional_delete",
                                      "conditional_delete"}

StmtOf(before, vss_record, res) ==
    [kind |-> res.kind, key |-> vss_record.key, num_rows |-> res.num_rows,
     negative |-> vss_record.version < -1,
     unconditional |-> IF Unconditional(res)
                       THEN before.unconditional \cup {vss_record.key}
                       ELSE before.unconditional]

(* transaction.execute(stmt, ..) of p's transaction, pushing its row count *)
Execute(p, vss_record, res) ==
    /\ ~Blocked(p, vss_record, res)
    /\ txn' = [txn EXCEPT ![p] = AddWrite(@, res.write)]
    /\ batch_results' = [batch_results EXCEPT ![p] = Append(@, res.num_rows)]
    /\ stmt' = [stmt EXCEPT ![p] = StmtOf(@, vss_record, res)]

InitHandlers ==
    /\ pc = [p \in Procs |-> "idle"]
    /\ txn = [p \in Procs |-> NoWrites]
    /\ batch_results = [p \in Procs |-> <<>>]
    /\ n_items = [p \in Procs |-> 0]
    /\ item_count = [p \in Procs |-> NoItemCount]
    /\ list_req = [p \in Procs |-> NoListReq]
    /\ stmt = [p \in Procs |-> NoStmt]
    /\ last = [p \in Procs |-> NoResp]
    /\ http = [p \in Procs |-> NoHttp]
    /\ server = NoServer
    /\ pool = NewPool
    /\ vss_db = EmptyTable
    /\ client = [p \in Procs |-> NoIteration]
    /\ hist = [p \in Procs |-> EmptyBag]
    /\ seen = [p \in Procs |-> {}]
    /\ concurrent = FALSE
    /\ n_success = [done |-> 0, pending |-> 0]

Init ==
    /\ db = EmptyTable
    /\ cdb = EmptyTable
    /\ InitHandlers

(***************************************************************************)
(* get                                                                     *)
(***************************************************************************)
(* Fault: get removes the record it has read.                              *)
Get_removes_record(p, key) ==
    /\ pc[p] = "idle"
    /\ last' = [last EXCEPT ![p] =
                  [Resp("get", GetResponse(db, key).result)
                     EXCEPT !.kvs = GetResponse(db, key).kvs]]
    /\ batch_results' = [batch_results EXCEPT ![p] = <<>>]
    /\ list_req' = [list_req EXCEPT ![p] = NoListReq]
    /\ db' = [k \in DOMAIN db \ {key} |-> db[k]]
    /\ UNCHANGED <<http, item_count, pc, txn, n_items, stmt>>

Get(p, key) ==
    /\ pc[p] = "idle"
    /\ last' = [last EXCEPT ![p] =
                  [Resp("get", GetResponse(db, key).result)
                     EXCEPT !.kvs = GetResponse(db, key).kvs]]
    /\ batch_results' = [batch_results EXCEPT ![p] = <<>>]
    /\ list_req' = [list_req EXCEPT ![p] = NoListReq]
    /\ UNCHANGED <<http, item_count, db, pc, txn, n_items, stmt>>

(***************************************************************************)
(* put: the records of transaction_items, then the global-version record,  *)
(* then the records of delete_items, one statement a step; the items of    *)
(* the request are read as the handler comes to them.                      *)
(***************************************************************************)
BeginPut(p) ==
    /\ pc[p] = "idle"
    /\ pc' = [pc EXCEPT ![p] = "put_records"]
    /\ txn' = [txn EXCEPT ![p] = NoWrites]
    /\ batch_results' = [batch_results EXCEPT ![p] = <<>>]
    /\ n_items' = [n_items EXCEPT ![p] = 0]
    /\ list_req' = [list_req EXCEPT ![p] = NoListReq]
    /\ last' = [last EXCEPT ![p] = NoResp]
    /\ UNCHANGED <<http, item_count, db, stmt>>

PutItem(p, kv) ==
    /\ pc[p] = "put_records"
    /\ n_items[p] < MaxItems
    /\ Execute(p, build_vss_record(kv),
               execute_put_object_query(TxView(p), build_vss_record(kv)))
    /\ n_items' = [n_items EXCEPT ![p] = @ + 1]
    /\ UNCHANGED <<http, item_count, db, pc, list_req, last>>

GlobalVersionRecord(global_version) ==
    build_vss_record(KeyValue(GLOBAL_VERSION_KEY, EmptyBytes, global_version))

PutGlobalVersion(p, global_version) ==
    /\ pc[p] = "put_records"
    /\ Execute(p, GlobalVersionRecord(global_version),
               execute_put_object_query(TxView(p), GlobalVersionRecord(global_version)))
    /\ pc' = [pc EXCEPT ![p] = "put_deletes"]
    /\ UNCHANGED <<http, item_count, db, n_items, list_req, last>>

PutDeleteItem(p, kv) ==
    /\ pc[p] \in PutPcs
    /\ n_items[p] < MaxItems
    /\ Execute(p, build_vss_record(kv),
               execute_delete_object_query(TxView(p), build_vss_record(kv)))
    /\ pc' = [pc EXCEPT ![p] = "put_deletes"]
    /\ n_items' = [n_items EXCEPT ![p] = @ + 1]
    /\ UNCHANGED <<http, item_count, db, list_req, last>>

(* Fault: only the last statement's row count is inspected.                *)
HasZero_last_only(results) == Len(results) > 0 /\ results[Len(results)] = 0

HasZero(results) == \E i \in 1..Len(results) : results[i] = 0

PutFinish(p) ==
    /\ pc[p] \in PutPcs
    /\ IF HasZero(batch_results[p])
       THEN /\ db' = Rollback(db, txn[p])
            /\ last' = [last EXCEPT ![p] = Resp("put", "Conflict")]
       ELSE /\ db' = Commit(db, txn[p])
            /\ last' = [last EXCEPT ![p] = Resp("put", "ok")]
    /\ txn' = [txn EXCEPT ![p] = NoWrites]
    /\ pc' = [pc EXCEPT ![p] = "idle"]
    /\ n_items' = [n_items EXCEPT ![p] = 0]
    /\ stmt' = [stmt EXCEPT ![p] = NoStmt]
    /\ UNCHANGED <<http, item_count, batch_results, list_req>>

(***************************************************************************)
(* delete                                                                  *)
(***************************************************************************)
DeleteMissingKeyValue(p) ==
    /\ pc[p] = "idle"
    /\ last' = [last EXCEPT ![p] = Resp("delete", "InvalidRequest")]
    /\ batch_results' = [batch_results EXCEPT ![p] = <<>>]
    /\ list_req' = [list_req EXCEPT ![p] = NoListReq]
    /\ UNCHANGED <<http, item_count, db, pc, txn, n_items, stmt>>

DeleteExecute(p, key_value) ==
    /\ pc[p] = "idle"
    /\ pc' = [pc EXCEPT ![p] = "delete_finish"]
    /\ ~Blocked(p, build_vss_record(key_value),
                execute_delete_object_query(db, build_vss_record(key_value)))
    /\ LET res == execute_delete_object_query(db, build_vss_record(key_value))
       IN /\ txn' = [txn EXCEPT ![p] = AddWrite(NoWrites, res.write)]
          /\ batch_results' = [batch_results EXCEPT ![p] = <<res.num_rows>>]
          /\ stmt' = [stmt EXCEPT ![p] =
                        StmtOf(NoStmt, build_vss_record(key_value), res)]
    /\ list_req' = [list_req EXCEPT ![p] = NoListReq]
    /\ last' = [last EXCEPT ![p] = NoResp]
    /\ UNCHANGED <<http, item_count, db, n_items>>

DeleteFinish(p) ==
    /\ pc[p] = "delete_finish"
    /\ IF batch_results[p][1] = 0
       THEN db' = Rollback(db, txn[p])
       ELSE db' = Commit(db, txn[p])
    /\ last' = [last EXCEPT ![p] = Resp("delete", "ok")]
    /\ txn' = [txn EXCEPT ![p] = NoWrites]
    /\ pc' = [pc EXCEPT ![p] = "idle"]
    /\ stmt' = [stmt EXCEPT ![p] = NoStmt]
    /\ UNCHANGED <<http, item_count, batch_results, n_items, list_req>>

(***************************************************************************)
(* Two puts that each hold a row and each ask for a row the other holds    *)
(* wait for one another; the database ends the deadlock by failing the     *)
(* statement of one of them.  The error leaves put through `?`, as         *)
(* InternalServerError; the dropped transaction is rolled back.            *)
(* CanAsk: the put of p can still execute a statement on key k (an item    *)
(* while it has room, the global-version record while in the first loop).  *)
(***************************************************************************)
CanAsk(p, k) ==
    /\ pc[p] \in PutPcs
    /\ n_items[p] < MaxItems \/ (pc[p] = "put_records" /\ k = GLOBAL_VERSION_KEY)
WaitsFor(p, q) == \E k \in DOMAIN txn[q] : CanAsk(p, k)

PutStatementError(p) ==
    /\ \E q \in Procs \ {p} : WaitsFor(p, q) /\ WaitsFor(q, p)
    /\ db' = Rollback(db, txn[p])
    /\ last' = [last EXCEPT ![p] = Resp("put", "InternalServerError")]
    /\ txn' = [txn EXCEPT ![p] = NoWrites]
    /\ pc' = [pc EXCEPT ![p] = "idle"]
    /\ n_items' = [n_items EXCEPT ![p] = 0]
    /\ stmt' = [stmt EXCEPT ![p] = NoStmt]
    /\ UNCHANGED <<http, item_count, batch_results, list_req>>

(***************************************************************************)
(* list_key_versions: the get of the global version (first page only),     *)
(* then the listing query on another connection.                           *)
(***************************************************************************)
ListGetGlobalVersion(p, key_prefix, page_token, page_size) ==
    /\ pc[p] = "idle"
    /\ list_req' = [list_req EXCEPT ![p] =
          [key_prefix |-> key_prefix, page_token |-> page_token,
           page_size |-> page_size,
           global_version |->
              IF page_token = None THEN Some(GlobalVersionOf(db)) ELSE None]]
    /\ pc' = [pc EXCEPT ![p] = "list_query"]
    /\ last' = [last EXCEPT ![p] = NoResp]
    /\ batch_results' = [batch_results EXCEPT ![p] = <<>>]
    /\ UNCHANGED <<http, item_count, db, txn, n_items, stmt>>

ListLimit(page_size) ==
    Min(IF IsSome(page_size) THEN Unwrap(page_size) ELSE I32_MAX,
        LIST_KEY_VERSIONS_MAX_PAGE_SIZE)

ListResponse(t, r) ==
    LET limit == ListLimit(r.page_size)
        key_like == (IF IsSome(r.key_prefix) THEN Unwrap(r.key_prefix) ELSE EmptyString)
                      \o <<PERCENT>>
        page_token_param == IF IsSome(r.page_token) THEN Unwrap(r.page_token)
                            ELSE EmptyString
        key_versions == FilterKeyVersions(ListQueryRows(t, page_token_param, key_like, limit))
    IN IF limit < 0
       THEN Resp("list", "InternalServerError")
       ELSE [op |-> "list", result |-> "ok", kvs |-> key_versions,
             next_page_token |-> NextPageToken(key_versions),
             global_version |-> r.global_version]

ListQuery(p) ==
    /\ pc[p] = "list_query"
    /\ last' = [last EXCEPT ![p] = ListResponse(db, list_req[p])]
    /\ pc' = [pc EXCEPT ![p] = "idle"]
    /\ UNCHANGED <<http, item_count, db, txn, batch_results, n_items, list_req, stmt>>

(***************************************************************************)
(* The requests' inputs.                                                   *)
(***************************************************************************)
ValuesOf(k) == IF k = GLOBAL_VERSION_KEY THEN {EmptyBytes} ELSE Values
PutItems == UNION {{KeyValue(k, v, ver) : v \in ValuesOf(k), ver \in Versions} : k \in Keys}
DeleteItems == {KeyValue(k, EmptyBytes, ver) : k \in Keys, ver \in Versions}
KeyPrefixes == {None, Some(<<118>>)}
PageTokens == {None, Some(EmptyString)}
PageSizes == {None, Some(1)}

(***************************************************************************)
(* Spec: the requests of one client, one after the other.                  *)
(***************************************************************************)
Client == "p1"

Next ==
    \/ \E key \in Keys : Get(Client, key) /\ UNCHANGED hvars
    \/ BeginPut(Client) /\ UNCHANGED hvars
    \/ \E kv \in PutItems : PutItem(Client, kv) /\ UNCHANGED hvars
    \/ \E global_version \in Versions :
          PutGlobalVersion(Client, global_version) /\ UNCHANGED hvars
    \/ \E kv \in DeleteItems : PutDeleteItem(Client, kv) /\ UNCHANGED hvars
    \/ PutFinish(Client) /\ UNCHANGED hvars
    \/ DeleteMissingKeyValue(Client) /\ UNCHANGED hvars
    \/ \E kv \in DeleteItems : DeleteExecute(Client, kv) /\ UNCHANGED hvars
    \/ DeleteFinish(Client) /\ UNCHANGED hvars
    \/ \E key_prefix \in KeyPrefixes, page_token \in PageTokens, page_size \in PageSizes :
          ListGetGlobalVersion(Client, key_prefix, page_token, page_size)
             /\ UNCHANGED hvars
    \/ ListQuery(Client) /\ UNCHANGED hvars

Spec == Init /\ [][Next]_vars

(***************************************************************************)
(* Properties of Spec.                                                     *)
(***************************************************************************)

(* C1: while a put runs the store is as the put found it, and a put whose  *)
(* collected row counts include a zero answers Conflict and leaves every   *)
(* record of the store, the reserved record and the records its matching   *)
(* statements targeted included, as it was before the call.                *)
C1_ZeroRowsConflictNothingApplied ==
    [][pc[Client] \in PutPcs =>
         /\ pc'[Client] \in PutPcs => db' = db
         /\ (pc'[Client] = "idle" /\ HasZero(batch_results[Client])) =>
               (last'[Client] = Resp("put", "Conflict") /\ db' = db)]_vars

(* A put has answered Conflict although one of its statements matched, on  *)
(* a store that holds records.                                             *)
C1_Witness ==
    /\ pc[Client] = "idle"
    /\ last[Client] = Resp("put", "Conflict")
    /\ \E i \in 1..Len(batch_results[Client]) : batch_results[Client][i] = 1
    /\ HasZero(batch_results[Client])
    /\ db # EmptyTable

(* C4: a transaction item {K, V, version 0} affects one row and leaves K   *)
(* at (V, 1) when its transaction sees no record of K, and affects zero    *)
(* rows and leaves K's record as it is when it sees one; a put of that     *)
(* item alone succeeds on a store without K, after which get of K returns  *)
(* V with version 1, and fails on a store with K, which keeps its records. *)
C4_ConditionalInsert ==
    [][/\ \A kv \in PutItems :
             (kv.version = 0 /\ PutItem(Client, kv)) =>
                IF kv.key \in DOMAIN TxView(Client)
                THEN /\ batch_results'[Client] = Append(batch_results[Client], 0)
                     /\ TxView(Client)' = TxView(Client)
                ELSE /\ batch_results'[Client] = Append(batch_results[Client], 1)
                     /\ TxView(Client)' =
                           [k \in DOMAIN TxView(Client) \cup {kv.key} |->
                              IF k = kv.key THEN RowOf(kv.value, 1) ELSE TxView(Client)[k]]
       /\ (PutFinish(Client) /\ Len(batch_results[Client]) = 1
             /\ stmt[Client].kind = "conditional_insert") =>
             IF stmt[Client].key \in DOMAIN db
             THEN last'[Client] = Resp("put", "Conflict") /\ db' = db
             ELSE /\ last'[Client] = Resp("put", "ok")
                  /\ GetResponse(db', stmt[Client].key) =
                        [result |-> "ok",
                         kvs |-> <<KeyValue(stmt[Client].key,
                                            txn[Client][stmt[Client].key].value, 1)>>]]_vars

(* A put's only statement so far is a conditional insert that found no     *)
(* record and wrote one at version 1.                                      *)
C4_Witness ==
    /\ pc[Client] \in PutPcs
    /\ stmt[Client].kind = "conditional_insert"
    /\ batch_results[Client] = <<1>>
    /\ stmt[Client].key \notin DOMAIN db
    /\ txn[Client][stmt[Client].key].version = 1

(* C6: every stored record has version >= 0 and so has every record a get  *)
(* or a list_key_versions returned, whatever versions the requests carry.  *)
C6_VersionsNonNegative ==
    /\ \A k \in DOMAIN db : db[k].version >= 0
    /\ \A p \in Procs : \A i \in 1..Len(last[p].kvs) : last[p].kvs[i].version >= 0

(* A transaction that wrote or deleted by the sentinel -1 has then executed *)
(* a statement whose request version is below -1, on a store with records. *)
C6_Witness ==
    /\ stmt[Client].negative
    /\ stmt[Client].unconditional # {}
    /\ db # EmptyTable

(* C8 as stated: the global version of the store never decreases.          *)
C8_GlobalVersionNeverDecreases ==
    [][GlobalVersionOf(db') >= GlobalVersionOf(db)]_vars

(* C8, amended: the global version of the store decreases only by a request *)
(* that wrote the reserved key with version -1 or deleted it.              *)
C8_GlobalVersionDecreasesOnlyWhenForced ==
    [][GlobalVersionOf(db') < GlobalVersionOf(db) =>
          GLOBAL_VERSION_KEY \in stmt[Client].unconditional]_vars

(* A put has succeeded and the reserved record stands at a version only    *)
(* conditional updates reach.                                              *)
C8_Witness ==
    /\ last[Client] = Resp("put", "ok")
    /\ GLOBAL_VERSION_KEY \in DOMAIN db
    /\ db[GLOBAL_VERSION_KEY].version >= 2

(***************************************************************************)
(* The history of a handler's request: the bag of the records it has       *)
(* executed.                                                               *)
(***************************************************************************)
Executed(op, vss_record) ==
    [op |-> op, key |-> vss_record.key, value |-> vss_record.value,
     version |-> vss_record.version]
Record(p, op, vss_record) ==
    hist' = [hist EXCEPT ![p] = @ (+) SetToBag({Executed(op, vss_record)})]
Forget(p) == hist' = [hist EXCEPT ![p] = EmptyBag]

(***************************************************************************)
(* SpecExample: one client's puts of conditional inserts of KEY_A, with or *)
(* without a global_version, and its gets, from the empty store.           *)
(***************************************************************************)
ExampleItems == {KeyValue(KEY_A, v, 0) : v \in Values}

ExampleNext ==
    \/ BeginPut(Client) /\ Forget(Client) /\ UNCHANGED <<svars, cdb, seen, concurrent, n_success>>
    \/ \E kv \in ExampleItems :
          PutItem(Client, kv) /\ Record(Client, "put", build_vss_record(kv))
             /\ UNCHANGED <<svars, cdb, seen, concurrent, n_success>>
    \/ \E global_version \in Versions :
          PutGlobalVersion(Client, global_version)
             /\ Record(Client, "put", GlobalVersionRecord(global_version))
             /\ UNCHANGED <<svars, cdb, seen, concurrent, n_success>>
    \/ PutFinish(Client) /\ UNCHANGED hvars
    \/ \E key \in Keys : Get(Client, key) /\ UNCHANGED hvars

SpecExample == Init /\ [][ExampleNext]_vars

(* The request of the example: {key "a", value "A", version 0} and the     *)
(* global_version.                                                         *)
C9_Request(global_version) ==
    SetToBag({Executed("put", KeyValue(KEY_A, "A", 0)),
              Executed("put", KeyValue(GLOBAL_VERSION_KEY, EmptyBytes, global_version))})

(* C9 as stated: the put of {"a", "A", 0} with global_version 5 on the     *)
(* empty store succeeds, after which get of "a" returns ("A", 1) and get   *)
(* of the reserved key returns version 5.                                  *)
C9_ExamplePutSucceeds ==
    [][(PutFinish(Client) /\ db = EmptyTable /\ hist[Client] = C9_Request(5)) =>
          /\ last'[Client] = Resp("put", "ok")
          /\ GetResponse(db', KEY_A) =
                [result |-> "ok", kvs |-> <<KeyValue(KEY_A, "A", 1)>>]
          /\ GlobalVersionOf(db') = 5]_vars

(* C9, amended: that put fails with Conflict and stores nothing (get of    *)
(* "a" finds no key, get of the reserved key returns version 0); the same  *)
(* put with global_version 0 succeeds, after which get of "a" returns      *)
(* ("A", 1) and get of the reserved key returns version 1.                 *)
C9_ExamplePutConflicts ==
    [][/\ (PutFinish(Client) /\ db = EmptyTable /\ hist[Client] = C9_Request(5)) =>
             /\ last'[Client] = Resp("put", "Conflict")
             /\ db' = EmptyTable
             /\ GetResponse(db', KEY_A).result = "NoSuchKey"
             /\ GlobalVersionOf(db') = 0
       /\ (PutFinish(Client) /\ db = EmptyTable /\ hist[Client] = C9_Request(0)) =>
             /\ last'[Client] = Resp("put", "ok")
             /\ GetResponse(db', KEY_A) =
                   [result |-> "ok", kvs |-> <<KeyValue(KEY_A, "A", 1)>>]
             /\ GlobalVersionOf(db') = 1]_vars

(* The example's put has returned, on the store it found empty.            *)
C9_Witness ==
    /\ pc[Client] = "idle"
    /\ last[Client].op = "put"
    /\ hist[Client] = C9_Request(5)
    /\ db = EmptyTable

(***************************************************************************)
(* SpecChain: one client's puts of conditional writes (versions >= 0) of   *)
(* KEY_A, from the empty store.  n_success counts the statements that      *)
(* affected a row: pending while their transaction is open, done once it   *)
(* has committed.  The count stops at I64_MAX + 1.                         *)
(***************************************************************************)
ChainItems == {KeyValue(KEY_A, v, ver) : v \in Values, ver \in 0..I64_MAX}

ChainNext ==
    \/ BeginPut(Client) /\ UNCHANGED hvars
    \/ \E kv \in ChainItems :
          /\ n_success.done + n_success.pending <= I64_MAX
          /\ PutItem(Client, kv)
          /\ n_success' = [n_success EXCEPT !.pending = @ + stmt'[Client].num_rows]
          /\ UNCHANGED <<svars, cdb, hist, seen, concurrent>>
    \/ /\ PutFinish(Client)
       /\ n_success' = [done |-> IF last'[Client].result = "ok"
                                 THEN n_success.done + n_success.pending
                                 ELSE n_success.done,
                        pending |-> 0]
       /\ UNCHANGED <<svars, cdb, hist, seen, concurrent>>

SpecChain == Init /\ [][ChainNext]_vars

(* C5 as stated: a conditional update with version V >= 1 affects a row    *)
(* exactly when the version its transaction sees for the key is V, and     *)
(* then leaves the key at the new value with version V + 1; after N        *)
(* successful conditional puts from the absent key the stored version is N. *)
C5_UpdateStoresSuccessor ==
    [][/\ \A kv \in ChainItems :
             (kv.version >= 1 /\ PutItem(Client, kv)) =>
                IF kv.key \in DOMAIN TxView(Client)
                      /\ TxView(Client)[kv.key].version = kv.version
                THEN /\ batch_results'[Client] = Append(batch_results[Client], 1)
                     /\ TxView(Client)' =
                           [TxView(Client) EXCEPT
                              ![kv.key] = RowOf(kv.value, kv.version + 1)]
                ELSE /\ batch_results'[Client] = Append(batch_results[Client], 0)
                     /\ TxView(Client)' = TxView(Client)
       /\ pc'[Client] = "idle" =>
             IF n_success'.done = 0
             THEN KEY_A \notin DOMAIN db'
             ELSE db'[KEY_A].version = n_success'.done]_vars

(* C5, amended: the new version is V + 1 below i64::MAX and i64::MAX at    *)
(* i64::MAX; after N successful conditional puts from the absent key the   *)
(* stored version is the smaller of N and i64::MAX.                        *)
C5_UpdateStoresSaturatingSuccessor ==
    [][/\ \A kv \in ChainItems :
             (kv.version >= 1 /\ PutItem(Client, kv)) =>
                IF kv.key \in DOMAIN TxView(Client)
                      /\ TxView(Client)[kv.key].version = kv.version
                THEN /\ batch_results'[Client] = Append(batch_results[Client], 1)
                     /\ TxView(Client)' =
                           [TxView(Client) EXCEPT
                              ![kv.key] = RowOf(kv.value,
                                                IF kv.version = I64_MAX THEN I64_MAX
                                                ELSE kv.version + 1)]
                ELSE /\ batch_results'[Client] = Append(batch_results[Client], 0)
                     /\ TxView(Client)' = TxView(Client)
       /\ pc'[Client] = "idle" =>
             IF n_success'.done = 0
             THEN KEY_A \notin DOMAIN db'
             ELSE db'[KEY_A].version = Min(n_success'.done, I64_MAX)]_vars

(* More conditional puts have succeeded than there are positive versions:  *)
(* the stored version stands at I64_MAX.                                   *)
C5_Witness ==
    /\ pc[Client] = "idle"
    /\ n_success.done > I64_MAX
    /\ db[KEY_A].version = I64_MAX

(***************************************************************************)
(* SpecList: one client's list_key_versions requests on a store that holds *)
(* any of the keys "a", "vss", "vss_global_version" and "w".               *)
(* The key prefixes are absent, "", "v", "vss_", the reserved key and "_".  *)
(***************************************************************************)
KEY_VSS == <<118, 115, 115>>
KEY_W == <<119>>
ListKeys == {KEY_A, KEY_VSS, GLOBAL_VERSION_KEY, KEY_W}
ListStores == {[k \in S |-> RowOf("A", INITIAL_RECORD_VERSION)] : S \in SUBSET ListKeys}
ListKeyPrefixes == {None, Some(EmptyString), Some(<<118>>), Some(<<118, 115, 115, 95>>),
                    Some(GLOBAL_VERSION_KEY), Some(<<UNDERSCORE>>)}
ListPageTokens == {None, Some(EmptyString), Some(KEY_A), Some(KEY_VSS),
                   Some(GLOBAL_VERSION_KEY)}
ListPageSizes == {None, Some(-1), Some(0), Some(1), Some(2)}

InitList ==
    /\ db \in ListStores
    /\ cdb = db
    /\ InitHandlers

ListNext ==
    \/ \E key_prefix \in ListKeyPrefixes, page_token \in ListPageTokens,
          page_size \in ListPageSizes :
          ListGetGlobalVersion(Client, key_prefix, page_token, page_size)
             /\ UNCHANGED hvars
    \/ ListQuery(Client) /\ UNCHANGED hvars

SpecList == InitList /\ [][ListNext]_vars

(* C10: no list_key_versions response holds an entry whose key is the      *)
(* reserved key.                                                           *)
C10_ListOmitsReservedKey ==
    \A p \in Procs :
       last[p].op = "list" =>
          \A i \in 1..Len(last[p].kvs) : last[p].kvs[i].key # GLOBAL_VERSION_KEY

(* A response that holds entries has returned for a request whose query    *)
(* selected the stored reserved record.                                    *)
C10_Witness ==
    /\ pc[Client] = "idle"
    /\ last[Client].op = "list"
    /\ last[Client].kvs # <<>>
    /\ LET r == list_req[Client]
           rows == ListQueryRows(
                      db,
                      IF IsSome(r.page_token) THEN Unwrap(r.page_token) ELSE EmptyString,
                      (IF IsSome(r.key_prefix) THEN Unwrap(r.key_prefix) ELSE EmptyString)
                         \o <<PERCENT>>,
                      ListLimit(r.page_size))
       IN \E i \in 1..Len(rows) : rows[i].key = GLOBAL_VERSION_KEY

(***************************************************************************)
(* SpecRead: one get or list_key_versions of a reader beside one put or    *)
(* delete of a writer, their steps interleaved, on a store that holds any  *)
(* of KEY_A and the reserved record at the initial version.                *)
(***************************************************************************)
Reader == "p1"
Writer == "p2"
Fresh(p) == pc[p] = "idle" /\ last[p] = NoResp /\ list_req[p] = NoListReq
               /\ batch_results[p] = <<>>

ReadStores ==
    {[k \in S |-> RowOf(IF k = KEY_A THEN "A" ELSE EmptyBytes, INITIAL_RECORD_VERSION)] :
        S \in SUBSET Keys}
ReadVersions == {-1, 0, INITIAL_RECORD_VERSION}
ReadPutItems == {KeyValue(KEY_A, "A", ver) : ver \in ReadVersions}
ReadDeleteItems == {KeyValue(KEY_A, EmptyBytes, -1)}

InitRead ==
    /\ db \in ReadStores
    /\ cdb = db
    /\ InitHandlers

(* The request of p has returned: cdb takes the writes of a request that   *)
(* returned ok, and the lists that stand between their reads see it.       *)
Returned(p) ==
    /\ cdb' = IF last'[p].result = "ok" THEN Overlay(cdb, txn[p]) ELSE cdb
    /\ seen' = [q \in Procs |->
                  IF pc[q] = "list_query" THEN Append(seen[q], cdb') ELSE seen[q]]

ReadNext ==
    \/ \E key \in Keys :
          Fresh(Reader) /\ Get(Reader, key) /\ UNCHANGED hvars
    \/ \E page_token \in PageTokens, page_size \in PageSizes :
          /\ Fresh(Reader)
          /\ ListGetGlobalVersion(Reader, None, page_token, page_size)
          /\ seen' = [seen EXCEPT ![Reader] = <<cdb>>]
          /\ UNCHANGED <<svars, cdb, hist, concurrent, n_success>>
    \/ ListQuery(Reader) /\ UNCHANGED hvars
    \/ Fresh(Writer) /\ BeginPut(Writer) /\ UNCHANGED hvars
    \/ \E kv \in ReadPutItems : PutItem(Writer, kv) /\ UNCHANGED hvars
    \/ \E global_version \in ReadVersions :
          PutGlobalVersion(Writer, global_version) /\ UNCHANGED hvars
    \/ \E kv \in ReadDeleteItems : PutDeleteItem(Writer, kv) /\ UNCHANGED hvars
    \/ PutFinish(Writer) /\ Returned(Writer) /\ UNCHANGED <<svars, hist, concurrent, n_success>>
    \/ \E kv \in ReadDeleteItems :
          Fresh(Writer) /\ DeleteExecute(Writer, kv) /\ UNCHANGED hvars
    \/ DeleteFinish(Writer) /\ Returned(Writer) /\ UNCHANGED <<svars, hist, concurrent, n_success>>

SpecRead == InitRead /\ [][ReadNext]_vars

(* The version of the reserved record of store t, 0 when it has none.      *)
StoredGlobalVersion(t) ==
    IF GLOBAL_VERSION_KEY \in DOMAIN t THEN t[GLOBAL_VERSION_KEY].version ELSE 0

(* The response list_key_versions would give for request r had it read     *)
(* both the global version and the keys from store t.                      *)
ListOf(t, r) ==
    ListResponse(t, [r EXCEPT !.global_version =
                        IF r.page_token = None THEN Some(StoredGlobalVersion(t))
                        ELSE None])

(* C3 as stated: every response of a read is what the read would return    *)
(* from one store made of whole batches that returned ok, one of those     *)
(* that stood while the read ran.                                          *)
C3_ReadSeesOneStore ==
    \A p \in Procs :
       (pc[p] = "idle" /\ last[p].op = "list") =>
          \E i \in 1..Len(seen[p]) : last[p] = ListOf(seen[p][i], list_req[p])

(* C3, amended: the store the reads see is always made of whole batches    *)
(* that returned ok, and each statement of a read (the get's, the list's   *)
(* read of the global version, the list's query of the keys) returns what  *)
(* that store holds at its moment; the two statements of one               *)
(* list_key_versions may stand on either side of a batch.                  *)
C3_EachReadSeesWholeBatches ==
    [][/\ db' = cdb'
       /\ \A p \in Procs :
             /\ (pc[p] = "idle" /\ pc'[p] = "list_query") =>
                   list_req'[p].global_version =
                      IF list_req'[p].page_token = None
                      THEN Some(StoredGlobalVersion(cdb)) ELSE None
             /\ (pc[p] = "list_query" /\ pc'[p] = "idle") =>
                   last'[p] = ListResponse(cdb, list_req[p])
             /\ (last'[p].op = "get" /\ last[p].op # "get") =>
                   \E key \in Keys :
                      /\ last'[p].result = GetResponse(cdb, key).result
                      /\ last'[p].kvs = GetResponse(cdb, key).kvs]_vars

(* A list_key_versions has returned the keys of a batch that returned ok   *)
(* between its two reads, with the global version from before the batch.   *)
C3_Witness ==
    /\ pc[Reader] = "idle"
    /\ last[Reader].op = "list"
    /\ Len(seen[Reader]) = 2
    /\ last[Writer] = Resp("put", "ok")
    /\ last[Reader] # ListOf(seen[Reader][1], list_req[Reader])
    /\ last[Reader] # ListOf(seen[Reader][2], list_req[Reader])

(* C7 as stated: every key of a first-page response has a version no       *)
(* greater than the response's global_version.                             *)
C7_KeyVersionsAtMostGlobalVersion ==
    \A p \in Procs :
       (last[p].op = "list" /\ IsSome(last[p].global_version)) =>
          \A i \in 1..Len(last[p].kvs) :
             last[p].kvs[i].version <= Unwrap(last[p].global_version)

(* C7, amended: the global_version of a first-page response is the version *)
(* of the reserved record (0 when absent) in the store as it stood at the  *)
(* list's first read, and every key of the response carries the version    *)
(* the store holds for it at the list's second read.                       *)
C7_GlobalVersionReadFirst ==
    [][\A p \in Procs :
          (pc[p] = "list_query" /\ pc'[p] = "idle" /\ last'[p].result = "ok"
              /\ list_req[p].page_token = None) =>
             /\ last'[p].global_version = Some(StoredGlobalVersion(seen[p][1]))
             /\ \A i \in 1..Len(last'[p].kvs) :
                   /\ last'[p].kvs[i].key \in DOMAIN cdb
                   /\ last'[p].kvs[i].version = cdb[last'[p].kvs[i].key].version]_vars

(* A first-page response holds a key whose version exceeds the response's  *)
(* global_version, which a batch has raised since the list read it.        *)
C7_Witness ==
    /\ pc[Reader] = "idle"
    /\ last[Reader].op = "list"
    /\ IsSome(last[Reader].global_version)
    /\ Len(seen[Reader]) = 2
    /\ StoredGlobalVersion(db) > Unwrap(last[Reader].global_version)
    /\ \E i \in 1..Len(last[Reader].kvs) :
          last[Reader].kvs[i].version > Unwrap(last[Reader].global_version)

(***************************************************************************)
(* SpecConc: one put of each of two clients, their statements interleaved, *)
(* on a store that holds KEY_A at the initial version, at I64_MAX or not   *)
(* at all, and the reserved record at the initial version or not at all.   *)
(* The clients write KEY_A, each its own value, and the global version.    *)
(* First is the client whose put begins first.                             *)
(***************************************************************************)
First == "p1"
Second == "p2"
ValueOf(p) == IF p = First THEN "A" ELSE "B"
ConcVersions == {-1, 0, INITIAL_RECORD_VERSION, I64_MAX}
ConcGlobalVersions == {-1, 0, INITIAL_RECORD_VERSION}
ConcPutItems(p) == {KeyValue(KEY_A, ValueOf(p), ver) : ver \in ConcVersions}
ConcDeleteItems == {KeyValue(KEY_A, EmptyBytes, -1)}
ConcStores ==
    {[k \in S |-> RowOf(EmptyBytes, IF k = KEY_A THEN ver ELSE INITIAL_RECORD_VERSION)] :
        S \in SUBSET Keys, ver \in {INITIAL_RECORD_VERSION, I64_MAX}}

InitConc ==
    /\ db \in ConcStores
    /\ cdb = db
    /\ InitHandlers

(* The two requests execute at most MaxItems + 2 statements together.      *)
ConcRoom == BagCardinality(hist[First]) + BagCardinality(hist[Second]) < MaxItems + 2

ConcNext ==
    \E p \in Procs :
       \/ /\ Fresh(p)
          /\ p = Second => ~Fresh(First)
          /\ BeginPut(p)
          /\ concurrent' = (concurrent \/ \E q \in Procs \ {p} : pc[q] \in PutPcs)
          /\ UNCHANGED <<svars, cdb, hist, seen, n_success>>
       \/ \E kv \in ConcPutItems(p) :
             ConcRoom /\ PutItem(p, kv) /\ Record(p, "put", build_vss_record(kv))
                /\ UNCHANGED <<svars, cdb, seen, concurrent, n_success>>
       \/ \E global_version \in ConcGlobalVersions :
             ConcRoom /\ PutGlobalVersion(p, global_version)
                /\ Record(p, "put", GlobalVersionRecord(global_version))
                /\ UNCHANGED <<svars, cdb, seen, concurrent, n_success>>
       \/ \E kv \in ConcDeleteItems :
             ConcRoom /\ PutDeleteItem(p, kv) /\ Record(p, "delete", build_vss_record(kv))
                /\ UNCHANGED <<svars, cdb, seen, concurrent, n_success>>
       \/ PutFinish(p) /\ Returned(p) /\ UNCHANGED <<svars, hist, concurrent, n_success>>
       \/ PutStatementError(p) /\ UNCHANGED hvars

SpecConc == InitConc /\ [][ConcNext]_vars

(* The conditional writes (key, version >= 0) that p's batch has executed,  *)
(* and the number of its operations on key k.                              *)
CondWrites(p) ==
    {<<h.key, h.version>> : h \in {x \in BagToSet(hist[p]) : x.op = "put" /\ x.version >= 0}}
OpsOn(p, k) ==
    BagCardinality([h \in {x \in BagToSet(hist[p]) : x.key = k} |-> hist[p][h]])
BothReturned ==
    /\ concurrent
    /\ \A p \in Procs : pc[p] = "idle" /\ last[p].op = "put"

(* C2 as stated: of two concurrent batches that each hold a conditional    *)
(* write of the same key with the same version, at most one commits, the   *)
(* other fails with Conflict, and the store holds no write of a batch that *)
(* failed.                                                                 *)
C2_AtMostOneCommitsOtherConflicts ==
    (BothReturned /\ CondWrites(First) \cap CondWrites(Second) # {}) =>
       /\ ~(last[First].result = "ok" /\ last[Second].result = "ok")
       /\ \A p \in Procs : last[p].result \in {"ok", "Conflict"}
       /\ db = cdb

(* C2, amended: when the shared conditional write has a version below      *)
(* i64::MAX and is each batch's only operation on its key, at most one of  *)
(* the batches commits; the other fails, with Conflict or, when the        *)
(* database failed one of its statements, with InternalServerError; the    *)
(* store holds no write of a batch that failed.                            *)
C2_AtMostOneCommitsOtherFails ==
    (/\ BothReturned
     /\ \E kv \in CondWrites(First) \cap CondWrites(Second) :
           /\ kv[2] < I64_MAX
           /\ OpsOn(First, kv[1]) = 1
           /\ OpsOn(Second, kv[1]) = 1) =>
       /\ ~(last[First].result = "ok" /\ last[Second].result = "ok")
       /\ \A p \in Procs : last[p].result \in {"ok", "Conflict", "InternalServerError"}
       /\ db = cdb

(* Two concurrent batches with the same conditional write of KEY_A have    *)
(* returned, the second to begin with ok and the first with Conflict, and  *)
(* the store holds the second's value.                                     *)
C2_Witness ==
    /\ BothReturned
    /\ \E kv \in CondWrites(First) \cap CondWrites(Second) :
          /\ kv[1] = KEY_A
          /\ kv[2] < I64_MAX
          /\ OpsOn(First, kv[1]) = 1
          /\ OpsOn(Second, kv[1]) = 1
    /\ last[First] = Resp("put", "Conflict")
    /\ last[Second] = Resp("put", "ok")
    /\ KEY_A \in DOMAIN db
    /\ db[KEY_A].value = ValueOf(Second)

(***************************************************************************)
(* Further properties of Spec.                                             *)
(***************************************************************************)

(* C11: get of a key without a stored record fails with NoSuchKey, unless  *)
(* the key is the reserved key, for which it succeeds with the empty value *)
(* and version 0; get of a key with a stored record returns the stored     *)
(* value and version.                                                      *)
C11_GetReturnsStoredOrDefault ==
    [][\A key \in Keys :
          Get(Client, key) =>
             IF key \in DOMAIN db
             THEN /\ last'[Client].result = "ok"
                  /\ last'[Client].kvs = <<KeyValue(key, db[key].value, db[key].version)>>
             ELSE IF key = GLOBAL_VERSION_KEY
                  THEN /\ last'[Client].result = "ok"
                       /\ last'[Client].kvs = <<KeyValue(GLOBAL_VERSION_KEY, EmptyBytes, 0)>>
                  ELSE /\ last'[Client].result = "NoSuchKey"
                       /\ last'[Client].kvs = <<>>]_vars

(* A get of the reserved key has returned version 0 from a store that      *)
(* holds a record but not the reserved one.                                *)
C11_Witness ==
    /\ last[Client].op = "get"
    /\ last[Client].result = "ok"
    /\ last[Client].kvs = <<KeyValue(GLOBAL_VERSION_KEY, EmptyBytes, 0)>>
    /\ GLOBAL_VERSION_KEY \notin DOMAIN db
    /\ KEY_A \in DOMAIN db

(***************************************************************************)
(* SpecCount: one client's puts whose request fixes the lengths of         *)
(* transaction_items and delete_items, around MAX_PUT_REQUEST_ITEM_COUNT.  *)
(* put compares the sum of the two lengths with the maximum before it      *)
(* builds a record or asks for a connection.                               *)
(***************************************************************************)
MAX_PUT_REQUEST_ITEM_COUNT == 1000

(* Fault: the comparison rejects the maximum itself.                       *)
ItemCountExceeded_at_maximum(n_transaction_items, n_delete_items) ==
    n_transaction_items + n_delete_items >= MAX_PUT_REQUEST_ITEM_COUNT

ItemCountExceeded(n_transaction_items, n_delete_items) ==
    n_transaction_items + n_delete_items > MAX_PUT_REQUEST_ITEM_COUNT

PutTooManyItems(p, n_transaction_items, n_delete_items) ==
    /\ pc[p] = "idle"
    /\ ItemCountExceeded(n_transaction_items, n_delete_items)
    /\ last' = [last EXCEPT ![p] = Resp("put", "InvalidRequest")]
    /\ batch_results' = [batch_results EXCEPT ![p] = <<>>]
    /\ list_req' = [list_req EXCEPT ![p] = NoListReq]
    /\ UNCHANGED <<http, db, pc, txn, n_items, item_count, stmt>>

BeginPutOfCount(p, n_transaction_items, n_delete_items) ==
    /\ pc[p] = "idle"
    /\ ~ItemCountExceeded(n_transaction_items, n_delete_items)
    /\ item_count' = [item_count EXCEPT ![p] =
                        [transaction_items |-> n_transaction_items,
                         delete_items |-> n_delete_items]]
    /\ pc' = [pc EXCEPT ![p] = "put_records"]
    /\ txn' = [txn EXCEPT ![p] = NoWrites]
    /\ batch_results' = [batch_results EXCEPT ![p] = <<>>]
    /\ n_items' = [n_items EXCEPT ![p] = 0]
    /\ list_req' = [list_req EXCEPT ![p] = NoListReq]
    /\ last' = [last EXCEPT ![p] = NoResp]
    /\ UNCHANGED <<http, db, stmt>>

PutItemOfCount(p, kv) ==
    /\ pc[p] = "put_records"
    /\ n_items[p] < item_count[p].transaction_items
    /\ Execute(p, build_vss_record(kv),
               execute_put_object_query(TxView(p), build_vss_record(kv)))
    /\ n_items' = [n_items EXCEPT ![p] = @ + 1]
    /\ UNCHANGED <<http, db, pc, item_count, list_req, last>>

PutGlobalVersionOfCount(p, global_version) ==
    /\ pc[p] = "put_records"
    /\ n_items[p] = item_count[p].transaction_items
    /\ Execute(p, GlobalVersionRecord(global_version),
               execute_put_object_query(TxView(p), GlobalVersionRecord(global_version)))
    /\ pc' = [pc EXCEPT ![p] = "put_deletes"]
    /\ UNCHANGED <<http, db, n_items, item_count, list_req, last>>

PutDeleteItemOfCount(p, kv) ==
    /\ pc[p] \in PutPcs
    /\ n_items[p] >= item_count[p].transaction_items
    /\ n_items[p] < item_count[p].transaction_items + item_count[p].delete_items
    /\ Execute(p, build_vss_record(kv),
               execute_delete_object_query(TxView(p), build_vss_record(kv)))
    /\ pc' = [pc EXCEPT ![p] = "put_deletes"]
    /\ n_items' = [n_items EXCEPT ![p] = @ + 1]
    /\ UNCHANGED <<http, db, item_count, list_req, last>>

PutFinishOfCount(p) ==
    /\ n_items[p] = item_count[p].transaction_items + item_count[p].delete_items
    /\ PutFinish(p)

CountLengths == {0, 1, MAX_PUT_REQUEST_ITEM_COUNT, MAX_PUT_REQUEST_ITEM_COUNT + 1}
CountItems == {KeyValue(KEY_A, v, -1) : v \in Values}
CountDeleteItems == {KeyValue(KEY_A, EmptyBytes, -1)}
CountGlobalVersions == {0, INITIAL_RECORD_VERSION}

CountNext ==
    \/ \E n_transaction_items \in CountLengths, n_delete_items \in CountLengths :
          PutTooManyItems(Client, n_transaction_items, n_delete_items) /\ UNCHANGED hvars
    \/ \E n_transaction_items \in CountLengths, n_delete_items \in CountLengths :
          BeginPutOfCount(Client, n_transaction_items, n_delete_items) /\ UNCHANGED hvars
    \/ \E kv \in CountItems : PutItemOfCount(Client, kv) /\ UNCHANGED hvars
    \/ \E global_version \in CountGlobalVersions :
          PutGlobalVersionOfCount(Client, global_version) /\ UNCHANGED hvars
    \/ \E kv \in CountDeleteItems : PutDeleteItemOfCount(Client, kv) /\ UNCHANGED hvars
    \/ PutFinishOfCount(Client) /\ UNCHANGED hvars

SpecCount == Init /\ [][CountNext]_vars

(* C12: a put whose transaction_items and delete_items together number     *)
(* more than MAX_PUT_REQUEST_ITEM_COUNT returns InvalidRequest and leaves  *)
(* the store, and the transaction state, as they were; a put with exactly  *)
(* the maximum (the global_version is not counted) passes this comparison  *)
(* and goes on to its statements.                                          *)
C12_ItemCountLimit ==
    [][\A n_transaction_items \in CountLengths, n_delete_items \in CountLengths :
          (\/ PutTooManyItems(Client, n_transaction_items, n_delete_items)
           \/ BeginPutOfCount(Client, n_transaction_items, n_delete_items)) =>
             IF n_transaction_items + n_delete_items > MAX_PUT_REQUEST_ITEM_COUNT
             THEN /\ last'[Client] = Resp("put", "InvalidRequest")
                  /\ db' = db
                  /\ txn' = txn
                  /\ pc'[Client] = "idle"
             ELSE /\ pc'[Client] = "put_records"
                  /\ last'[Client].result # "InvalidRequest"]_vars

(* A put of exactly MAX_PUT_REQUEST_ITEM_COUNT items and a global_version  *)
(* has executed all its statements, each affecting a row.                  *)
C12_Witness ==
    /\ pc[Client] = "put_deletes"
    /\ item_count[Client].transaction_items = MAX_PUT_REQUEST_ITEM_COUNT
    /\ n_items[Client] = MAX_PUT_REQUEST_ITEM_COUNT
    /\ Len(batch_results[Client]) = MAX_PUT_REQUEST_ITEM_COUNT + 1
    /\ ~HasZero(batch_results[Client])

(* C13: a delete with a key_value returns ok (the store not failing).  It  *)
(* removes the key's record when the request's version is -1 or equals the *)
(* stored version; when the key has no record or the versions differ, the  *)
(* store stays as it was and the response is still ok, never Conflict.  A  *)
(* delete without key_value returns InvalidRequest and changes nothing.    *)
C13_Matches(kv) ==
    /\ kv.key \in DOMAIN db
    /\ kv.version = -1 \/ kv.version = db[kv.key].version
C13_Without(k) == [x \in DOMAIN db \ {k} |-> db[x]]

C13_DeleteRemovesOnlyOnMatch ==
    [][/\ \A kv \in DeleteItems :
             DeleteExecute(Client, kv) =>
                /\ db' = db
                /\ Overlay(db, txn'[Client]) =
                      (IF C13_Matches(kv) THEN C13_Without(kv.key) ELSE db)
                /\ batch_results'[Client] = <<IF C13_Matches(kv) THEN 1 ELSE 0>>
       /\ DeleteFinish(Client) =>
             /\ last'[Client] = Resp("delete", "ok")
             /\ db' = Overlay(db, txn[Client])
       /\ DeleteMissingKeyValue(Client) =>
             /\ last'[Client] = Resp("delete", "InvalidRequest")
             /\ db' = db]_vars

(* A delete whose version differs from the stored one has returned ok and  *)
(* both records are still stored.                                          *)
C13_Witness ==
    /\ last[Client] = Resp("delete", "ok")
    /\ batch_results[Client] = <<0>>
    /\ Keys \subseteq DOMAIN db

(* C14: an item of version -1 affects one row whatever the key's record,   *)
(* if any: afterwards the transaction sees the key with the request's      *)
(* value and INITIAL_RECORD_VERSION, and every other key as before; the    *)
(* same upsert applied to that result leaves it as it is.                  *)
C14_Again(t, kv) ==
    Overlay(t, AddWrite(NoWrites,
                        execute_put_object_query(t, build_vss_record(kv)).write))

C14_UpsertIdempotent ==
    [][\A kv \in PutItems :
          (kv.version = -1 /\ PutItem(Client, kv)) =>
             /\ batch_results'[Client] = Append(batch_results[Client], 1)
             /\ TxView(Client)' =
                   [k \in DOMAIN TxView(Client) \cup {kv.key} |->
                      IF k = kv.key THEN RowOf(kv.value, INITIAL_RECORD_VERSION)
                      ELSE TxView(Client)[k]]
             /\ C14_Again(TxView(Client)', kv) = TxView(Client)']_vars

(* An upsert has run on a key stored with a later version and has set it   *)
(* back to INITIAL_RECORD_VERSION.                                         *)
C14_Witness ==
    /\ pc[Client] = "put_records"
    /\ stmt[Client].kind = "non_conditional_upsert"
    /\ stmt[Client].key = KEY_A
    /\ KEY_A \in DOMAIN db
    /\ db[KEY_A].version > INITIAL_RECORD_VERSION
    /\ TxView(Client)[KEY_A].version = INITIAL_RECORD_VERSION

(***************************************************************************)
(* SpecBatch: one client's puts of one to three items, conditional inserts *)
(* and upserts of the keys "b" and "c", from the empty store.              *)
(***************************************************************************)
KEY_B == <<98>>
KEY_C == <<99>>
BatchLengths == 1..3
BatchItems == {KeyValue(k, v, ver) : k \in {KEY_B, KEY_C}, v \in Values, ver \in {0, -1}}

BatchNext ==
    \/ \E n_transaction_items \in BatchLengths :
          BeginPutOfCount(Client, n_transaction_items, 0) /\ Forget(Client)
             /\ UNCHANGED <<svars, cdb, seen, concurrent, n_success>>
    \/ \E kv \in BatchItems :
          PutItemOfCount(Client, kv) /\ Record(Client, "put", build_vss_record(kv))
             /\ UNCHANGED <<svars, cdb, seen, concurrent, n_success>>
    \/ PutFinishOfCount(Client) /\ UNCHANGED hvars

SpecBatch == Init /\ [][BatchNext]_vars

(* The batch holds two conditional inserts of one key.                     *)
C15_TwoInsertsOfOneKey ==
    \E e \in BagToSet(hist[Client]) :
       /\ e.version = 0
       /\ \/ CopiesIn(e, hist[Client]) >= 2
          \/ \E f \in BagToSet(hist[Client]) : f # e /\ f.key = e.key /\ f.version = 0

(* C15: a put whose batch holds two conditional inserts of the same key    *)
(* returns Conflict, the second one finding the row the first one wrote in *)
(* the transaction, and the store is afterwards as before: a key of the    *)
(* batch that had no record has none.                                      *)
C15_DuplicateInsertConflicts ==
    [][(PutFinishOfCount(Client) /\ C15_TwoInsertsOfOneKey) =>
          /\ last'[Client] = Resp("put", "Conflict")
          /\ db' = db
          /\ \A e \in BagToSet(hist[Client]) :
                e.key \notin DOMAIN db => e.key \notin DOMAIN db']_vars

(* The batch [b at 0, c at 0, b at 0] has returned Conflict on the empty   *)
(* store, its third statement being the one without a row.                 *)
C15_Witness ==
    /\ last[Client] = Resp("put", "Conflict")
    /\ hist[Client] = SetToBag({Executed("put", KeyValue(KEY_B, "A", 0)),
                                Executed("put", KeyValue(KEY_C, "A", 0)),
                                Executed("put", KeyValue(KEY_B, EmptyBytes, 0))})
    /\ batch_results[Client] = <<1, 1, 0>>
    /\ db = EmptyTable

(***************************************************************************)
(* Further properties of SpecList.                                         *)
(***************************************************************************)
C16_BeginsWith(key, key_prefix) ==
    /\ Len(key_prefix) <= Len(key)
    /\ SubSeq(key, 1, Len(key_prefix)) = key_prefix

(* The page the request r is to get from the table t: of the records with  *)
(* key > page_token whose key begins with key_prefix, in ascending order,  *)
(* the first min(page_size, 100), less the reserved key.                   *)
C16_Page(t, r) ==
    LET page_token == IF IsSome(r.page_token) THEN Unwrap(r.page_token) ELSE EmptyString
        key_prefix == IF IsSome(r.key_prefix) THEN Unwrap(r.key_prefix) ELSE EmptyString
        hit == {k \in DOMAIN t : StrLess(page_token, k) /\ C16_BeginsWith(k, key_prefix)}
        ordered == SortKeys(hit)
        n == IF IsSome(r.page_size)
             THEN Min(Unwrap(r.page_size), LIST_KEY_VERSIONS_MAX_PAGE_SIZE)
             ELSE Min(Len(ordered), LIST_KEY_VERSIONS_MAX_PAGE_SIZE)
        first == Take(ordered, n)
    IN SelectSeq([i \in 1..Len(first) |-> KeyValue(first[i], EmptyBytes, t[first[i]].version)],
                 LAMBDA kv : kv.key # GLOBAL_VERSION_KEY)

(* C16: the key_versions of a list_key_versions response are the first     *)
(* min(page_size, 100) records (all, at most 100, without page_size) of    *)
(* the store's records with key > page_token and key beginning with        *)
(* key_prefix, in ascending key order, less the reserved key, each with    *)
(* the stored version and an empty value.                                  *)
C16_ListReturnsPrefixPage ==
    (last[Client].op = "list" /\ last[Client].result = "ok") =>
       last[Client].kvs = C16_Page(db, list_req[Client])

(* C17: in a list_key_versions response next_page_token is the key of the  *)
(* last entry of key_versions, and the empty string when key_versions is   *)
(* empty; a request with page_size 0 gets empty key_versions and the empty *)
(* string.                                                                 *)
C17_NextPageToken ==
    (last[Client].op = "list" /\ last[Client].result = "ok") =>
       /\ last[Client].next_page_token =
             (IF last[Client].kvs # <<>>
              THEN Some(last[Client].kvs[Len(last[Client].kvs)].key)
              ELSE Some(EmptyString))
       /\ list_req[Client].page_size = Some(0) =>
             /\ last[Client].kvs = <<>>
             /\ last[Client].next_page_token = Some(EmptyString)

(* A request with page_size 0 and no other condition has returned from a   *)
(* store that holds records other than the reserved one.                   *)
C17_Witness ==
    /\ last[Client].op = "list"
    /\ last[Client].result = "ok"
    /\ list_req[Client].page_size = Some(0)
    /\ list_req[Client].key_prefix = None
    /\ list_req[Client].page_token = None
    /\ {KEY_A, KEY_W} \subseteq DOMAIN db

(* C18: a list_key_versions response carries global_version exactly when   *)
(* page_token is absent or the empty string, and then it is the version of *)
(* the stored reserved record, 0 without one; with a non-empty page_token  *)
(* the response carries none.                                              *)
C18_GlobalVersionOnFirstPage ==
    (last[Client].op = "list" /\ last[Client].result = "ok") =>
       IF list_req[Client].page_token \in {None, Some(EmptyString)}
       THEN last[Client].global_version = Some(StoredGlobalVersion(db))
       ELSE last[Client].global_version = None

(***************************************************************************)
(* SpecFail: one client's puts and deletes of KEY_A against a database     *)
(* that can fail any step, and a caller that can abandon a request.       *)
(* Every step of put and delete ends in `.await?` (or `.await.map_err(..)?`*)
(* ): an error leaves the handler at once, as InternalServerError, and     *)
(* drops the transaction, which the database then rolls back.  An          *)
(* abandoned request drops the transaction in the same way and returns     *)
(* nothing.  A commit that fails is the one step whose effect the client   *)
(* cannot know: the error can come from the database, which then has       *)
(* committed nothing, or from the connection after the database has        *)
(* committed.                                                              *)
(***************************************************************************)
Fail(p, op, t) ==
    /\ db' = t
    /\ last' = [last EXCEPT ![p] = Resp(op, "InternalServerError")]
    /\ txn' = [txn EXCEPT ![p] = NoWrites]
    /\ pc' = [pc EXCEPT ![p] = "idle"]
    /\ n_items' = [n_items EXCEPT ![p] = 0]
    /\ stmt' = [stmt EXCEPT ![p] = NoStmt]
    /\ UNCHANGED <<http, item_count, batch_results, list_req>>

Abandon(p) ==
    /\ db' = Rollback(db, txn[p])
    /\ txn' = [txn EXCEPT ![p] = NoWrites]
    /\ pc' = [pc EXCEPT ![p] = "idle"]
    /\ n_items' = [n_items EXCEPT ![p] = 0]
    /\ stmt' = [stmt EXCEPT ![p] = NoStmt]
    /\ UNCHANGED <<http, item_count, batch_results, list_req, last>>

(* pool.get() or conn.transaction() fails                                  *)
PutConnectionFails(p) ==
    /\ pc[p] = "idle"
    /\ Fail(p, "put", db)

(* Fault: the writes made before the failed statement stay.                *)
PutStatementFails_keeps_writes(p) ==
    /\ pc[p] \in PutPcs
    /\ n_items[p] < MaxItems \/ pc[p] = "put_records"
    /\ Fail(p, "put", Overlay(db, txn[p]))

(* a statement of one of the two loops fails                               *)
PutStatementFails(p) ==
    /\ pc[p] \in PutPcs
    /\ n_items[p] < MaxItems \/ pc[p] = "put_records"
    /\ Fail(p, "put", Rollback(db, txn[p]))

(* transaction.rollback() fails                                            *)
PutRollbackFails(p) ==
    /\ pc[p] \in PutPcs
    /\ HasZero(batch_results[p])
    /\ Fail(p, "put", Rollback(db, txn[p]))

(* transaction.commit() fails                                              *)
PutCommitFails(p) ==
    /\ pc[p] \in PutPcs
    /\ ~HasZero(batch_results[p])
    /\ \E t \in {Rollback(db, txn[p]), Commit(db, txn[p])} : Fail(p, "put", t)

(* the caller drops the request before put reaches commit or rollback      *)
PutAbandoned(p) ==
    /\ pc[p] \in PutPcs
    /\ Abandon(p)

(* pool.get(), conn.transaction() or the DELETE fails                      *)
DeleteStatementFails(p) ==
    /\ pc[p] = "idle"
    /\ Fail(p, "delete", db)

DeleteRollbackFails(p) ==
    /\ pc[p] = "delete_finish"
    /\ batch_results[p][1] = 0
    /\ Fail(p, "delete", Rollback(db, txn[p]))

DeleteCommitFails(p) ==
    /\ pc[p] = "delete_finish"
    /\ batch_results[p][1] # 0
    /\ \E t \in {Rollback(db, txn[p]), Commit(db, txn[p])} : Fail(p, "delete", t)

DeleteAbandoned(p) ==
    /\ pc[p] = "delete_finish"
    /\ Abandon(p)

FailVersions == {-1, 0, INITIAL_RECORD_VERSION}
FailPutItems == {KeyValue(KEY_A, v, ver) : v \in Values, ver \in FailVersions}
FailDeleteItems == {KeyValue(KEY_A, EmptyBytes, ver) : ver \in FailVersions}

FailNext ==
    \/ BeginPut(Client) /\ UNCHANGED hvars
    \/ \E kv \in FailPutItems : PutItem(Client, kv) /\ UNCHANGED hvars
    \/ \E global_version \in FailVersions :
          PutGlobalVersion(Client, global_version) /\ UNCHANGED hvars
    \/ \E kv \in FailDeleteItems : PutDeleteItem(Client, kv) /\ UNCHANGED hvars
    \/ PutFinish(Client) /\ UNCHANGED hvars
    \/ \E kv \in FailDeleteItems : DeleteExecute(Client, kv) /\ UNCHANGED hvars
    \/ DeleteFinish(Client) /\ UNCHANGED hvars
    \/ PutConnectionFails(Client) /\ UNCHANGED hvars
    \/ PutStatementFails(Client) /\ UNCHANGED hvars
    \/ PutRollbackFails(Client) /\ UNCHANGED hvars
    \/ PutCommitFails(Client) /\ UNCHANGED hvars
    \/ PutAbandoned(Client) /\ UNCHANGED hvars
    \/ DeleteStatementFails(Client) /\ UNCHANGED hvars
    \/ DeleteRollbackFails(Client) /\ UNCHANGED hvars
    \/ DeleteCommitFails(Client) /\ UNCHANGED hvars
    \/ DeleteAbandoned(Client) /\ UNCHANGED hvars

SpecFail == Init /\ [][FailNext]_vars

C19_FailsBeforeCommit(p) ==
    \/ PutConnectionFails(p) \/ PutStatementFails(p) \/ PutRollbackFails(p)
    \/ DeleteStatementFails(p) \/ DeleteRollbackFails(p)
C19_FailsAtCommit(p) == PutCommitFails(p) \/ DeleteCommitFails(p)
C19_Abandoned(p) == PutAbandoned(p) \/ DeleteAbandoned(p)
C19_Statement(p) ==
    \/ \E kv \in FailPutItems : PutItem(p, kv)
    \/ \E global_version \in FailVersions : PutGlobalVersion(p, global_version)
    \/ \E kv \in FailDeleteItems : PutDeleteItem(p, kv) \/ DeleteExecute(p, kv)

(* C19 as stated: a put or delete that fails at a step of the backing      *)
(* store (connection, begin, statement, commit, rollback) returns          *)
(* InternalServerError, one that is abandoned before commit returns        *)
(* nothing, and in each case the store is as it was before the call (no    *)
(* statement changes the store before the commit).                         *)
C19_FailureLeavesStoreUnchanged ==
    [][/\ (C19_FailsBeforeCommit(Client) \/ C19_FailsAtCommit(Client)) =>
             /\ last'[Client].result = "InternalServerError"
             /\ db' = db
       /\ C19_Abandoned(Client) => (db' = db /\ last'[Client] = NoResp)
       /\ C19_Statement(Client) => db' = db]_vars

(* C19, amended: as stated for every step but the commit; a put or delete  *)
(* whose commit fails returns InternalServerError and the store is either  *)
(* as it was before the call or holds all the writes of the operation,     *)
(* never some of them.                                                     *)
C19_OnlyCommitFailureCanCommit ==
    [][/\ C19_FailsBeforeCommit(Client) =>
             /\ last'[Client].result = "InternalServerError"
             /\ db' = db
       /\ C19_FailsAtCommit(Client) =>
             /\ last'[Client].result = "InternalServerError"
             /\ db' \in {db, Overlay(db, txn[Client])}
       /\ C19_Abandoned(Client) => (db' = db /\ last'[Client] = NoResp)
       /\ C19_Statement(Client) => db' = db]_vars

(* A put has returned InternalServerError after two of its statements had  *)
(* each affected a row; the store holds nothing.                           *)
C19_Witness ==
    /\ last[Client] = Resp("put", "InternalServerError")
    /\ batch_results[Client] = <<1, 1>>
    /\ db = EmptyTable

(***************************************************************************)
(* The service: handle_request, which every one of the four endpoints      *)
(* goes through.  It asks the authorizer to verify the headers, reads the  *)
(* body, decodes it and only then calls the handler, which calls the       *)
(* engine with the authorizer's user_token.  The authorizer is a           *)
(* capability verify(headers) -> user_token | AuthError.                   *)
(***************************************************************************)
Endpoints == {"/getObject", "/putObjects", "/deleteObject", "/listKeyVersions"}
UserTokens == {"alice", "bob"}

(* A VssError: its variant and the message it carries.                     *)
VssError(kind, msg) == [kind |-> kind, msg |-> msg]
ErrorKinds == {"NoSuchKey", "Conflict", "InvalidRequest", "AuthError", "InternalServerError"}

get_error_status_code(e) ==
    CASE e.kind = "NoSuchKey" -> 404
      [] e.kind = "Conflict" -> 409
      [] e.kind = "InvalidRequest" -> 400
      [] e.kind = "AuthError" -> 401
      [] e.kind = "InternalServerError" -> 500

(* Fault: the internal error's message goes out as it is.                  *)
build_error_response_unsanitized(e) ==
    CASE e.kind = "NoSuchKey" ->
            [status |-> 404, error_code |-> "NoSuchKeyException", body |-> e.msg]
      [] e.kind = "Conflict" ->
            [status |-> 409, error_code |-> "ConflictException", body |-> e.msg]
      [] e.kind = "InvalidRequest" ->
            [status |-> 400, error_code |-> "InvalidRequestException", body |-> e.msg]
      [] e.kind = "AuthError" ->
            [status |-> 401, error_code |-> "AuthException", body |-> e.msg]
      [] e.kind = "InternalServerError" ->
            [status |-> 500, error_code |-> "InternalServerException", body |-> e.msg]

(* The response of an error: the status, and the ErrorResponse of the body *)
(* as its error_code and, in the field body, its message.                  *)
build_error_response(e) ==
    CASE e.kind = "NoSuchKey" ->
            [status |-> 404, error_code |-> "NoSuchKeyException", body |-> e.msg]
      [] e.kind = "Conflict" ->
            [status |-> 409, error_code |-> "ConflictException", body |-> e.msg]
      [] e.kind = "InvalidRequest" ->
            [status |-> 400, error_code |-> "InvalidRequestException", body |-> e.msg]
      [] e.kind = "AuthError" ->
            [status |-> 401, error_code |-> "AuthException", body |-> e.msg]
      [] e.kind = "InternalServerError" ->
            [status |-> 500, error_code |-> "InternalServerException",
             body |-> "Unknown Server Error occurred."]

(* The errors the engine and the authorizer return, with their messages.   *)
AuthFailure == VssError("AuthError", "Authentication failure")
EngineError(response) ==
    VssError(response.result,
             CASE response.result = "NoSuchKey" -> "Requested key not found."
               [] response.result = "Conflict" ->
                     "Transaction could not be completed due to a possible conflict"
               [] response.result = "InvalidRequest" /\ response.op = "delete" ->
                     "key_value missing in DeleteObjectRequest"
               [] response.result = "InvalidRequest" /\ response.op = "put" ->
                     "Number of write items per request should be less than equal to 1000"
               [] OTHER -> "Database operation failed.")

ParseErrorResponse ==
    [status |-> 400, error_code |-> "none", body |-> "Error parsing request"]
OkResponse == [status |-> 200, error_code |-> "none", body |-> "response"]

ServiceOnly == UNCHANGED <<db, pc, txn, batch_results, n_items, item_count, list_req, stmt, last>>

(* Fault: handle_request goes on after the authorizer's error.             *)
Authorize_ignores_failure(p, endpoint, verified) ==
    /\ pc[p] = "idle"
    /\ http[p].stage = "none"
    /\ http' = [http EXCEPT ![p] =
                  [stage |-> "authorized", endpoint |-> endpoint, user_token |-> verified,
                   engine_user_token |-> None, response |-> NoHttpResponse]]
    /\ ServiceOnly

(* authorizer.verify(&headers_map): Some(user_token), or None for AuthError *)
Authorize(p, endpoint, verified) ==
    /\ pc[p] = "idle"
    /\ http[p].stage = "none"
    /\ http' = [http EXCEPT ![p] =
                  IF IsSome(verified)
                  THEN [stage |-> "authorized", endpoint |-> endpoint,
                        user_token |-> verified, engine_user_token |-> None,
                        response |-> NoHttpResponse]
                  ELSE [stage |-> "none", endpoint |-> endpoint,
                        user_token |-> None, engine_user_token |-> None,
                        response |-> build_error_response(AuthFailure)]]
    /\ ServiceOnly

(* body.collect().await?                                                   *)
ReadBody(p) ==
    /\ http[p].stage = "authorized"
    /\ http' = [http EXCEPT ![p].stage = "body"]
    /\ ServiceOnly

(* body.collect() fails: the hyper error ends the request without a        *)
(* response                                                                *)
ReadBodyFails(p) ==
    /\ http[p].stage = "authorized"
    /\ http' = [http EXCEPT ![p].stage = "none"]
    /\ ServiceOnly

(* T::decode(bytes), and on success the call of the handler                *)
Decode(p, decoded) ==
    /\ http[p].stage = "body"
    /\ http' = [http EXCEPT ![p] =
                  IF decoded
                  THEN [http[p] EXCEPT !.stage = "engine",
                                       !.engine_user_token = http[p].user_token]
                  ELSE [http[p] EXCEPT !.stage = "none", !.response = ParseErrorResponse]]
    /\ ServiceOnly

(* The handler's engine call can start: the request is for this endpoint   *)
(* and the engine has not answered it.                                     *)
Invoked(p, endpoint) ==
    /\ http[p].stage = "engine"
    /\ http[p].endpoint = endpoint
    /\ pc[p] = "idle" => last[p] = NoResp

(* the handler has returned: the response, or the mapped error             *)
Respond(p) ==
    /\ http[p].stage = "engine"
    /\ pc[p] = "idle"
    /\ last[p] # NoResp
    /\ http' = [http EXCEPT ![p] =
                  [http[p] EXCEPT !.stage = "none",
                                  !.response = IF last[p].result = "ok" THEN OkResponse
                                               ELSE build_error_response(EngineError(last[p]))]]
    /\ last' = [last EXCEPT ![p] = NoResp]
    /\ UNCHANGED <<db, pc, txn, batch_results, n_items, item_count, list_req, stmt>>

ServiceNext ==
    \/ \E endpoint \in Endpoints, verified \in {None} \cup {Some(u) : u \in UserTokens} :
          Authorize(Client, endpoint, verified) /\ UNCHANGED hvars
    \/ ReadBody(Client) /\ UNCHANGED hvars
    \/ ReadBodyFails(Client) /\ UNCHANGED hvars
    \/ \E decoded \in BOOLEAN : Decode(Client, decoded) /\ UNCHANGED hvars
    \/ \E key \in Keys :
          Invoked(Client, "/getObject") /\ Get(Client, key) /\ UNCHANGED hvars
    \/ Invoked(Client, "/putObjects") /\ BeginPut(Client) /\ UNCHANGED hvars
    \/ \E kv \in FailPutItems :
          Invoked(Client, "/putObjects") /\ PutItem(Client, kv) /\ UNCHANGED hvars
    \/ Invoked(Client, "/putObjects") /\ PutFinish(Client) /\ UNCHANGED hvars
    \/ Invoked(Client, "/deleteObject") /\ DeleteMissingKeyValue(Client) /\ UNCHANGED hvars
    \/ \E kv \in FailDeleteItems :
          Invoked(Client, "/deleteObject") /\ DeleteExecute(Client, kv) /\ UNCHANGED hvars
    \/ Invoked(Client, "/deleteObject") /\ DeleteFinish(Client) /\ UNCHANGED hvars
    \/ \E key_prefix \in KeyPrefixes, page_token \in PageTokens, page_size \in PageSizes :
          Invoked(Client, "/listKeyVersions")
             /\ ListGetGlobalVersion(Client, key_prefix, page_token, page_size)
             /\ UNCHANGED hvars
    \/ Invoked(Client, "/listKeyVersions") /\ ListQuery(Client) /\ UNCHANGED hvars
    \/ Respond(Client) /\ UNCHANGED hvars

SpecService == Init /\ [][ServiceNext]_vars

(* A step of the engine: the store, the handler's position or its          *)
(* transaction changes, or the engine gives a response.                    *)
C20_EngineStep ==
    \/ <<db, pc, txn>>' # <<db, pc, txn>>
    \/ last'[Client] # last[Client] /\ last'[Client] # NoResp

(* C20: the engine takes a step only for a request whose headers the       *)
(* authorizer has accepted and whose body has been decoded, and with the   *)
(* user_token the authorizer returned.  A request the authorizer refuses   *)
(* gets status 401 with an AuthException payload, one whose body does not  *)
(* decode gets status 400 with the body "Error parsing request"; for both  *)
(* the engine is not called and the store does not change.                 *)
C20_EngineAfterAuthAndDecode ==
    [][/\ C20_EngineStep =>
             /\ http[Client].stage = "engine"
             /\ http[Client].user_token \in {Some(u) : u \in UserTokens}
             /\ http[Client].engine_user_token = http[Client].user_token
       /\ \A endpoint \in Endpoints :
             Authorize(Client, endpoint, None) =>
                /\ http'[Client].response =
                      [status |-> 401, error_code |-> "AuthException",
                       body |-> AuthFailure.msg]
                /\ http'[Client].stage = "none"
                /\ http'[Client].engine_user_token = None
                /\ <<db, pc, txn, last>>' = <<db, pc, txn, last>>
       /\ Decode(Client, FALSE) =>
             /\ http'[Client].response =
                   [status |-> 400, error_code |-> "none", body |-> "Error parsing request"]
             /\ http'[Client].stage = "none"
             /\ http'[Client].engine_user_token = None
             /\ <<db, pc, txn, last>>' = <<db, pc, txn, last>>]_vars

(* A request has been refused by the authorizer with 401 while the store   *)
(* holds a record, written for an earlier request that was accepted.       *)
C20_Witness ==
    /\ http[Client].stage = "none"
    /\ http[Client].response.status = 401
    /\ http[Client].engine_user_token = None
    /\ KEY_A \in DOMAIN db

(***************************************************************************)
(* SpecRoute: VssService::call.  The path is a string of characters; call  *)
(* strips BASE_PATH_PREFIX from it (the empty string when the path lacks   *)
(* the prefix) and matches the rest against the routes.                    *)
(***************************************************************************)
BASE_PATH_PREFIX == <<47, 118, 115, 115>>    \* "/vss"
GET_OBJECT == <<47, 103, 101, 116, 79, 98, 106, 101, 99, 116>>
PUT_OBJECTS == <<47, 112, 117, 116, 79, 98, 106, 101, 99, 116, 115>>
DELETE_OBJECT == <<47, 100, 101, 108, 101, 116, 101, 79, 98, 106, 101, 99, 116>>
LIST_KEY_VERSIONS ==
    <<47, 108, 105, 115, 116, 75, 101, 121, 86, 101, 114, 115, 105, 111, 110, 115>>
TEST_SENTRY == <<47, 116, 101, 115, 116, 83, 101, 110, 116, 114, 121>>
SLASH == <<47>>

(* str::strip_prefix                                                       *)
strip_prefix(path, prefix) ==
    IF Len(prefix) <= Len(path) /\ SubSeq(path, 1, Len(prefix)) = prefix
    THEN Some(SubSeq(path, Len(prefix) + 1, Len(path)))
    ELSE None

(* Fault: a path without the prefix is matched as it is.                   *)
prefix_stripped_path_or_path(path) ==
    LET stripped == strip_prefix(path, BASE_PATH_PREFIX)
    IN IF IsSome(stripped) THEN Unwrap(stripped) ELSE path

(* path.strip_prefix(BASE_PATH_PREFIX).unwrap_or_default()                 *)
prefix_stripped_path(path) ==
    LET stripped == strip_prefix(path, BASE_PATH_PREFIX)
    IN IF IsSome(stripped) THEN Unwrap(stripped) ELSE EmptyString

(* the arm of `match prefix_stripped_path.as_str()`                        *)
Route(path) ==
    LET route == prefix_stripped_path(path)
    IN CASE route = GET_OBJECT -> "/getObject"
         [] route = PUT_OBJECTS -> "/putObjects"
         [] route = DELETE_OBJECT -> "/deleteObject"
         [] route = LIST_KEY_VERSIONS -> "/listKeyVersions"
         [] route = TEST_SENTRY -> "/testSentry"
         [] OTHER -> "_"

InvalidPathResponse == [status |-> 400, error_code |-> "none", body |-> "Invalid request path."]
TestSentryResponse ==
    [status |-> 200, error_code |-> "none",
     body |-> "Sentry test events sent. Check your Sentry dashboard."]

Call(p, path, verified) ==
    /\ pc[p] = "idle"
    /\ http[p].stage = "none"
    /\ LET route == Route(path)
       IN IF route \in Endpoints
          THEN Authorize(p, route, verified)
          ELSE /\ http' = [http EXCEPT ![p] =
                             [stage |-> "none", endpoint |-> route, user_token |-> None,
                              engine_user_token |-> None,
                              response |-> IF route = "/testSentry" THEN TestSentryResponse
                                           ELSE InvalidPathResponse]]
               /\ ServiceOnly

EndpointPaths ==
    {BASE_PATH_PREFIX \o e : e \in {GET_OBJECT, PUT_OBJECTS, DELETE_OBJECT, LIST_KEY_VERSIONS}}
Paths ==
    EndpointPaths \cup
    {GET_OBJECT, PUT_OBJECTS, EmptyString, SLASH, BASE_PATH_PREFIX, BASE_PATH_PREFIX \o SLASH,
     BASE_PATH_PREFIX \o TEST_SENTRY, TEST_SENTRY,
     BASE_PATH_PREFIX \o GET_OBJECT \o SLASH,
     BASE_PATH_PREFIX \o BASE_PATH_PREFIX \o GET_OBJECT,
     BASE_PATH_PREFIX \o Tail(GET_OBJECT),
     SLASH \o BASE_PATH_PREFIX \o GET_OBJECT,
     BASE_PATH_PREFIX \o DELETE_OBJECT \o <<115>>}
Verified == {None} \cup {Some(u) : u \in UserTokens}

RouteNext ==
    \/ \E path \in Paths, verified \in Verified :
          Call(Client, path, verified) /\ UNCHANGED hvars
    \/ ReadBody(Client) /\ UNCHANGED hvars
    \/ \E decoded \in BOOLEAN : Decode(Client, decoded) /\ UNCHANGED hvars
    \/ \E key \in Keys :
          Invoked(Client, "/getObject") /\ Get(Client, key) /\ UNCHANGED hvars
    \/ Invoked(Client, "/deleteObject") /\ DeleteMissingKeyValue(Client) /\ UNCHANGED hvars
    \/ \E kv \in FailDeleteItems :
          Invoked(Client, "/deleteObject") /\ DeleteExecute(Client, kv) /\ UNCHANGED hvars
    \/ Invoked(Client, "/deleteObject") /\ DeleteFinish(Client) /\ UNCHANGED hvars
    \/ Invoked(Client, "/putObjects") /\ BeginPut(Client) /\ UNCHANGED hvars
    \/ \E kv \in FailPutItems :
          Invoked(Client, "/putObjects") /\ PutItem(Client, kv) /\ UNCHANGED hvars
    \/ Invoked(Client, "/putObjects") /\ PutFinish(Client) /\ UNCHANGED hvars
    \/ \E key_prefix \in KeyPrefixes, page_token \in PageTokens, page_size \in PageSizes :
          Invoked(Client, "/listKeyVersions")
             /\ ListGetGlobalVersion(Client, key_prefix, page_token, page_size)
             /\ UNCHANGED hvars
    \/ Invoked(Client, "/listKeyVersions") /\ ListQuery(Client) /\ UNCHANGED hvars
    \/ Respond(Client) /\ UNCHANGED hvars

SpecRoute == Init /\ [][RouteNext]_vars

(* The request is answered at once, with neither the authorizer nor the    *)
(* engine called.                                                          *)
C21_AnsweredByCall ==
    /\ http'[Client].stage = "none"
    /\ http'[Client].user_token = None
    /\ http'[Client].engine_user_token = None
    /\ UNCHANGED <<db, pc, txn, last>>

(* C21 as stated: a request whose path is not one of /vss/getObject,       *)
(* /vss/putObjects, /vss/deleteObject and /vss/listKeyVersions is answered *)
(* with status 400 and a plain-text body, and neither the authorizer nor   *)
(* the engine is called.                                                   *)
C21_OtherPathsGet400 ==
    [][\A path \in Paths \ EndpointPaths, verified \in Verified :
          Call(Client, path, verified) =>
             /\ http'[Client].response.status = 400
             /\ http'[Client].response.error_code = "none"
             /\ C21_AnsweredByCall]_vars

(* C21, amended: the same, except for the path /vss/testSentry, which is   *)
(* answered with status 200 and a plain-text body, also without the        *)
(* authorizer or the engine; and a request to one of the four paths is not *)
(* answered by the router.                                                 *)
C21_OtherPathsGet400ButTestSentry ==
    [][\A path \in Paths, verified \in Verified :
          Call(Client, path, verified) =>
             IF path \in EndpointPaths
             THEN http'[Client].response.body # InvalidPathResponse.body
             ELSE /\ C21_AnsweredByCall
                  /\ http'[Client].response =
                        (IF path = BASE_PATH_PREFIX \o TEST_SENTRY
                         THEN TestSentryResponse ELSE InvalidPathResponse)]_vars

(* A request to /getObject, without the prefix, has been answered with 400 *)
(* while the store holds a record.                                         *)
C21_Witness ==
    /\ http[Client].response = InvalidPathResponse
    /\ http[Client].endpoint = "_"
    /\ KEY_A \in DOMAIN db

(***************************************************************************)
(* SpecError: handle_request for the requests of two clients whose         *)
(* handlers return an error, any variant with any of the messages.         *)
(***************************************************************************)
ErrorMessages ==
    {"Requested key not found.",
     "Transaction could not be completed due to a possible conflict",
     "key_value missing in DeleteObjectRequest",
     "Number of write items per request should be less than equal to 1000",
     "Database operation failed.", "Connection error: timed out",
     "Unknown Server Error occurred.", AuthFailure.msg, ""}
VssErrors == {VssError(kind, msg) : kind \in ErrorKinds, msg \in ErrorMessages}

(* Err(e) => Ok(build_error_response(e))                                   *)
RespondError(p, e) ==
    /\ http[p].stage = "engine"
    /\ pc[p] = "idle"
    /\ http' = [http EXCEPT ![p] =
                  [http[p] EXCEPT !.stage = "none", !.response = build_error_response(e)]]
    /\ ServiceOnly

ErrorNext ==
    \/ \E p \in Procs, verified \in {None, Some("alice")} :
          Authorize(p, "/getObject", verified) /\ UNCHANGED hvars
    \/ \E p \in Procs : ReadBody(p) /\ UNCHANGED hvars
    \/ \E p \in Procs : Decode(p, TRUE) /\ UNCHANGED hvars
    \/ \E p \in Procs, e \in VssErrors : RespondError(p, e) /\ UNCHANGED hvars

SpecError == Init /\ [][ErrorNext]_vars

(* The mapping of the specification.                                       *)
C22_Mapped(e) ==
    CASE e.kind = "NoSuchKey" -> <<404, "NoSuchKeyException", e.msg>>
      [] e.kind = "Conflict" -> <<409, "ConflictException", e.msg>>
      [] e.kind = "InvalidRequest" -> <<400, "InvalidRequestException", e.msg>>
      [] e.kind = "AuthError" -> <<401, "AuthException", e.msg>>
      [] e.kind = "InternalServerError" ->
            <<500, "InternalServerException", "Unknown Server Error occurred.">>

(* C22: every error is answered with the status and code of its variant    *)
(* (NoSuchKey 404, Conflict 409, InvalidRequest 400, Auth 401, internal    *)
(* error 500) and with its own message, except the internal error, whose   *)
(* message is always "Unknown Server Error occurred."; the status is the   *)
(* one get_error_status_code gives.                                        *)
C22_ErrorMapping ==
    [][\A p \in Procs, e \in VssErrors :
          RespondError(p, e) =>
             /\ <<http'[p].response.status, http'[p].response.error_code,
                  http'[p].response.body>> = C22_Mapped(e)
             /\ http'[p].response.status = get_error_status_code(e)]_vars

(* An internal error has been answered with the fixed message, and a       *)
(* conflict with the engine's message.                                     *)
C22_Witness ==
    /\ http[Client].response =
          [status |-> 500, error_code |-> "InternalServerException",
           body |-> "Unknown Server Error occurred."]
    /\ http["p2"].response =
          [status |-> 409, error_code |-> "ConflictException",
           body |-> "Transaction could not be completed due to a possible conflict"]


(***************************************************************************)
(* C23, under SpecChain: a conditional update whose version is i64::MAX,   *)
(* executed on a key its transaction sees at i64::MAX, affects one row and *)
(* leaves the key at i64::MAX; and no conditional update leaves a key at a *)
(* negative version or at a version below the one it had.                  *)
(***************************************************************************)
C23_VersionSaturates ==
    [][\A kv \in ChainItems :
          (kv.version >= 1 /\ PutItem(Client, kv)) =>
             /\ (kv.version = I64_MAX
                   /\ kv.key \in DOMAIN TxView(Client)
                   /\ TxView(Client)[kv.key].version = I64_MAX) =>
                    /\ stmt'[Client].num_rows = 1
                    /\ TxView(Client)'[kv.key] = RowOf(kv.value, I64_MAX)
             /\ \A k \in DOMAIN TxView(Client) :
                    /\ k \in DOMAIN TxView(Client)'
                    /\ TxView(Client)'[k].version >= 0
                    /\ TxView(Client)'[k].version >= TxView(Client)[k].version]_vars

(* The last statement of the batch was a conditional update at i64::MAX    *)
(* that affected the row, and the row stands at i64::MAX.                  *)
C23_Witness ==
    /\ pc[Client] = "put_records"
    /\ stmt[Client].kind = "conditional_update"
    /\ stmt[Client].num_rows = 1
    /\ n_success.done + n_success.pending > I64_MAX
    /\ TxView(Client)[KEY_A].version = I64_MAX


(***************************************************************************)
(* SpecQuery: one client's get and list_key_versions requests on the       *)
(* stores of SpecList, with every key, key prefix, page token and page     *)
(* size of SpecList: gets of stored and of missing keys, lists that return *)
(* and lists whose query fails.                                            *)
(***************************************************************************)
QueryNext ==
    \/ \E key \in ListKeys : Get(Client, key) /\ UNCHANGED hvars
    \/ \E key_prefix \in ListKeyPrefixes, page_token \in ListPageTokens,
          page_size \in ListPageSizes :
          ListGetGlobalVersion(Client, key_prefix, page_token, page_size)
             /\ UNCHANGED hvars
    \/ ListQuery(Client) /\ UNCHANGED hvars

SpecQuery == InitList /\ [][QueryNext]_vars

(* C24: a step of get or of list_key_versions, whether the request         *)
(* succeeds or fails, leaves every record of the store as it was and       *)
(* leaves no write pending.                                                *)
C24_ReadsHaveNoSideEffects ==
    [][((\E key \in ListKeys : Get(Client, key))
          \/ (\E key_prefix \in ListKeyPrefixes, page_token \in ListPageTokens,
                 page_size \in ListPageSizes :
                 ListGetGlobalVersion(Client, key_prefix, page_token, page_size))
          \/ ListQuery(Client))
         => (db' = db /\ txn' = txn /\ txn'[Client] = NoWrites)]_vars

(* A get of a missing key has failed on a store that holds records, and    *)
(* the store is the one the client started on.                             *)
C24_Witness ==
    /\ last[Client] = Resp("get", "NoSuchKey")
    /\ db # EmptyTable
    /\ db = cdb
    /\ stmt[Client] = NoStmt


(***************************************************************************)
(* SpecShutdown: main's accept loop.  Each accepted connection is served   *)
(* by a task spawned on the runtime; the task handles the connection's     *)
(* requests one after the other.  ctrl_c() and the SIGTERM stream break    *)
(* the loop, the SIGHUP stream reopens the log file and the loop goes on.  *)
(* After the break block_on returns and main ends, which drops the         *)
(* runtime: tokio drops every task that has not finished at its next       *)
(* suspension point, and until then the tasks run on the runtime's worker  *)
(* threads.  The fields in_flight and responded of server are history: the *)
(* connections with a request in hand when the signal came, and those of   *)
(* them whose request has been answered since.                             *)
(***************************************************************************)
MaxReopen == 2

Serving(p) == p \in server.connections /\ ~server.stopped

InHand(p) == http[p].stage # "none"

(* rest_svc_listener.accept() gives a stream: its task is spawned          *)
Accept(p) ==
    /\ server.accepting
    /\ ~server.stopped
    /\ p \notin server.connections
    /\ server' = [server EXCEPT !.connections = @ \cup {p}]
    /\ UNCHANGED <<pvars, pool, vss_db, client>>

(* the peer closes a connection that has no request in hand                *)
Close(p) ==
    /\ Serving(p)
    /\ ~InHand(p)
    /\ pc[p] = "idle"
    /\ server' = [server EXCEPT !.connections = @ \ {p}]
    /\ UNCHANGED <<pvars, pool, vss_db, client>>

(* sighup_stream.recv(): logger.reopen()                                   *)
Sighup ==
    /\ server.accepting
    /\ server.reopened < MaxReopen
    /\ server' = [server EXCEPT !.reopened = @ + 1]
    /\ UNCHANGED <<pvars, pool, vss_db, client>>

(* ctrl_c() or sigterm_stream.recv(): the signal is logged, then break      *)
Break(signal) ==
    /\ server.accepting
    /\ server' = [server EXCEPT !.accepting = FALSE,
                                !.signal = signal,
                                !.in_flight = {p \in server.connections : InHand(p)}]
    /\ UNCHANGED <<pvars, pool, vss_db, client>>

Sigint == Break("SIGINT")

Sigterm == Break("SIGTERM")

(* a task of the runtime answers its request: the step A of the service    *)
Answers(p, A) ==
    /\ Serving(p)
    /\ A
    /\ server' = IF InHand(p) /\ ~InHand(p)' /\ p \in server.in_flight
                 THEN [server EXCEPT !.responded = @ \cup {p}]
                 ELSE server
    /\ UNCHANGED <<pool, vss_db, client, cdb, hist, seen, concurrent, n_success>>

(* main returns: the runtime is dropped with the tasks it holds, and the   *)
(* transactions of the dropped tasks are rolled back                       *)
Stop ==
    /\ ~server.accepting
    /\ ~server.stopped
    /\ server' = [server EXCEPT !.stopped = TRUE, !.connections = {}]
    /\ pc' = [p \in Procs |-> "idle"]
    /\ txn' = [p \in Procs |-> NoWrites]
    /\ n_items' = [p \in Procs |-> 0]
    /\ stmt' = [p \in Procs |-> NoStmt]
    /\ http' = [p \in Procs |-> [http[p] EXCEPT !.stage = "none"]]
    /\ db' = db
    /\ UNCHANGED <<batch_results, item_count, list_req, last, pool, vss_db, client>>

ShutdownEndpoints == {"/getObject", "/putObjects"}
ShutdownPutItems == {KeyValue(KEY_A, "A", -1)}

ShutdownNext ==
    \/ \E p \in Procs : Accept(p) /\ UNCHANGED <<cdb, hist, seen, concurrent, n_success>>
    \/ \E p \in Procs : Close(p) /\ UNCHANGED <<cdb, hist, seen, concurrent, n_success>>
    \/ Sighup /\ UNCHANGED <<cdb, hist, seen, concurrent, n_success>>
    \/ Sigint /\ UNCHANGED <<cdb, hist, seen, concurrent, n_success>>
    \/ Sigterm /\ UNCHANGED <<cdb, hist, seen, concurrent, n_success>>
    \/ Stop /\ UNCHANGED <<cdb, hist, seen, concurrent, n_success>>
    \/ \E p \in Procs, endpoint \in ShutdownEndpoints, verified \in {None, Some("alice")} :
          Answers(p, Authorize(p, endpoint, verified))
    \/ \E p \in Procs : Answers(p, ReadBody(p))
    \/ \E p \in Procs, decoded \in BOOLEAN : Answers(p, Decode(p, decoded))
    \/ \E p \in Procs : Answers(p, Invoked(p, "/getObject") /\ Get(p, KEY_A))
    \/ \E p \in Procs : Answers(p, Invoked(p, "/putObjects") /\ BeginPut(p))
    \/ \E p \in Procs, kv \in ShutdownPutItems :
          Answers(p, Invoked(p, "/putObjects") /\ PutItem(p, kv))
    \/ \E p \in Procs : Answers(p, Invoked(p, "/putObjects") /\ PutFinish(p))
    \/ \E p \in Procs : Answers(p, Respond(p))

SpecShutdown == Init /\ [][ShutdownNext]_vars

(* C25 as stated, its second part: when the process has stopped, every     *)
(* request that was in hand when SIGINT or SIGTERM came has been answered. *)
C25_InFlightRequestsDrain ==
    server.stopped => server.in_flight \subseteq server.responded

(* C25, its first part: once SIGINT or SIGTERM has come the accept loop     *)
(* takes no further connection.                                            *)
C25_NoAcceptAfterSignal ==
    [][server.signal \in {"SIGINT", "SIGTERM"} =>
          server'.connections \subseteq server.connections]_vars

(* C25, its third part: a SIGHUP leaves the accept loop running.           *)
C25_SighupKeepsAccepting ==
    [][server'.reopened # server.reopened =>
          (server.accepting /\ server'.accepting /\ ~server'.stopped)]_vars

(* The process has stopped with a request in hand at the signal that was   *)
(* answered since and one that was not.                                    *)
C25_Witness ==
    /\ server.stopped
    /\ server.signal = "SIGTERM"
    /\ server.reopened > 0
    /\ server.in_flight = Procs
    /\ server.responded = {Client}


(***************************************************************************)
(* SpecOrder: one client's puts on a store that holds any of KEY_A and     *)
(* the reserved key: up to MaxItems transaction_items and delete_items on  *)
(* either key, with or without global_version.  hist[p] holds the          *)
(* statements of p's running batch with the position each was executed at. *)
(***************************************************************************)
OrderVersions == {-1, 0, INITIAL_RECORD_VERSION}
OrderStores == {[k \in S |-> RowOf(EmptyBytes, INITIAL_RECORD_VERSION)] : S \in SUBSET Keys}
OrderPutItems == {KeyValue(k, EmptyBytes, ver) : k \in Keys, ver \in OrderVersions}
OrderDeleteItems == {KeyValue(k, EmptyBytes, ver) : k \in Keys, ver \in OrderVersions}

Log(p, op, vss_record) ==
    hist' = [hist EXCEPT ![p] =
               @ (+) SetToBag({[pos |-> BagCardinality(hist[p]) + 1, op |-> op,
                                record |-> vss_record]})]

InitOrder ==
    /\ db \in OrderStores
    /\ cdb = db
    /\ InitHandlers

OrderNext ==
    \/ BeginPut(Client) /\ Forget(Client)
          /\ UNCHANGED <<svars, cdb, seen, concurrent, n_success>>
    \/ \E kv \in OrderPutItems :
          PutItem(Client, kv) /\ Log(Client, "transaction_item", build_vss_record(kv))
             /\ UNCHANGED <<svars, cdb, seen, concurrent, n_success>>
    \/ \E global_version \in OrderVersions :
          PutGlobalVersion(Client, global_version)
             /\ Log(Client, "global_version", GlobalVersionRecord(global_version))
             /\ UNCHANGED <<svars, cdb, seen, concurrent, n_success>>
    \/ \E kv \in OrderDeleteItems :
          PutDeleteItem(Client, kv) /\ Log(Client, "delete_item", build_vss_record(kv))
             /\ UNCHANGED <<svars, cdb, seen, concurrent, n_success>>
    \/ PutFinish(Client) /\ UNCHANGED hvars

SpecOrder == InitOrder /\ [][OrderNext]_vars

(* The statements of kind op that the batch h executed, in the order of    *)
(* their execution, which for one kind is the order of the request.        *)
RECURSIVE C26_InOrder(_, _, _)
C26_InOrder(h, op, pos) ==
    IF pos > BagCardinality(h) THEN <<>>
    ELSE LET here == {x \in BagToSet(h) : x.pos = pos /\ x.op = op}
         IN (IF here = {} THEN <<>> ELSE <<CHOOSE x \in here : TRUE>>)
               \o C26_InOrder(h, op, pos + 1)

(* One transaction on table t that executes the statements in turn: its    *)
(* row counts and the writes it has pending.                               *)
RECURSIVE C26_Run(_, _, _, _)
C26_Run(t, w, results, statements) ==
    IF statements = <<>> THEN [results |-> results, writes |-> w]
    ELSE LET s == Head(statements)
             res == IF s.op = "delete_item"
                    THEN execute_delete_object_query(Overlay(t, w), s.record)
                    ELSE execute_put_object_query(Overlay(t, w), s.record)
         IN C26_Run(t, AddWrite(w, res.write), Append(results, res.num_rows),
                    Tail(statements))

(* Its outcome and the store it leaves.                                    *)
C26_Outcome(t, statements) ==
    LET run == C26_Run(t, NoWrites, <<>>, statements)
    IN IF \E i \in 1..Len(run.results) : run.results[i] = 0
       THEN [result |-> "Conflict", db |-> t]
       ELSE [result |-> "ok", db |-> Overlay(t, run.writes)]

(* The order the specification gives: transaction_items, delete_items,     *)
(* then the global-version write.                                          *)
C26_StatedOrder(h) ==
    C26_InOrder(h, "transaction_item", 1) \o C26_InOrder(h, "delete_item", 1)
       \o C26_InOrder(h, "global_version", 1)

C26_ReservedKeyDeleted(h) ==
    \E x \in BagToSet(h) : x.op = "delete_item" /\ x.record.key = GLOBAL_VERSION_KEY

C26_CarriesGlobalVersion(h) ==
    \E x \in BagToSet(h) : x.op = "global_version"

(* C26 as stated: the outcome of put and the store it leaves are those of  *)
(* one transaction that executes the transaction_items in request order,   *)
(* then the delete_items in request order, then the global-version write,  *)
(* also when the reserved key is among the items of a batch that carries   *)
(* global_version.                                                         *)
C26_EquivalentToStatedOrder ==
    [][PutFinish(Client) =>
          /\ last'[Client].result = C26_Outcome(db, C26_StatedOrder(hist[Client])).result
          /\ db' = C26_Outcome(db, C26_StatedOrder(hist[Client])).db]_vars

(* C26, amended: the same, for every batch but those that carry            *)
(* global_version and have the reserved key among their delete_items; the  *)
(* reserved key among the transaction_items does not matter.               *)
C26_EquivalentUnlessReservedKeyDeleted ==
    [][(/\ PutFinish(Client)
        /\ ~(C26_CarriesGlobalVersion(hist[Client])
               /\ C26_ReservedKeyDeleted(hist[Client]))) =>
          /\ last'[Client].result = C26_Outcome(db, C26_StatedOrder(hist[Client])).result
          /\ db' = C26_Outcome(db, C26_StatedOrder(hist[Client])).db]_vars

(* A put has returned ok whose batch wrote the reserved key as a           *)
(* transaction_item, then carried global_version, then deleted KEY_A.      *)
C26_Witness ==
    /\ pc[Client] = "idle"
    /\ last[Client] = Resp("put", "ok")
    /\ BagCardinality(hist[Client]) = 3
    /\ \E x \in BagToSet(hist[Client]) :
          x.op = "transaction_item" /\ x.record.key = GLOBAL_VERSION_KEY
    /\ \E x \in BagToSet(hist[Client]) :
          x.op = "delete_item" /\ x.record.key = KEY_A
    /\ C26_CarriesGlobalVersion(hist[Client])
    /\ db # cdb


(***************************************************************************)
(* SpecPage: a client iterates over the pages of list_key_versions on a    *)
(* store of SpecList that no request changes.  It sends its first request  *)
(* without page_token, then each next_page_token it got as the page_token  *)
(* of the next request, and stops at the first empty next_page_token.      *)
(***************************************************************************)
PageKeyPrefixes == {None, Some(EmptyString), Some(<<118>>)}
PageSizesOfIteration == {Some(1), Some(2)}

FirstPage(p, key_prefix, page_size) ==
    /\ ~client[p].started
    /\ ListGetGlobalVersion(p, key_prefix, None, page_size)
    /\ client' = [client EXCEPT ![p] =
                    [NoIteration EXCEPT !.started = TRUE, !.key_prefix = key_prefix,
                                        !.page_size = page_size]]

FollowingPage(p) ==
    /\ client[p].started
    /\ ~client[p].done
    /\ ListGetGlobalVersion(p, client[p].key_prefix, client[p].page_token,
                            client[p].page_size)
    /\ UNCHANGED client

PageReceived(p) ==
    /\ client[p].started
    /\ ListQuery(p)
    /\ client' = [client EXCEPT ![p] =
                    [@ EXCEPT !.received =
                                 client[p].received \o
                                    [i \in 1..Len(last'[p].kvs) |-> last'[p].kvs[i].key],
                              !.page_token = last'[p].next_page_token,
                              !.done = (last'[p].next_page_token = Some(EmptyString))]]

PageNext ==
    \/ \E key_prefix \in PageKeyPrefixes, page_size \in PageSizesOfIteration :
          FirstPage(Client, key_prefix, page_size)
             /\ UNCHANGED <<server, pool, vss_db, cdb, hist, seen, concurrent, n_success>>
    \/ FollowingPage(Client)
          /\ UNCHANGED <<server, pool, vss_db, cdb, hist, seen, concurrent, n_success>>
    \/ PageReceived(Client)
          /\ UNCHANGED <<server, pool, vss_db, cdb, hist, seen, concurrent, n_success>>

SpecPage == InitList /\ [][PageNext]_vars

(* The non-reserved keys of table t that begin with key_prefix, ascending. *)
C27_Matching(t, key_prefix) ==
    SortKeys({k \in DOMAIN t \ {GLOBAL_VERSION_KEY} :
                 C16_BeginsWith(k, IF IsSome(key_prefix) THEN Unwrap(key_prefix)
                                   ELSE EmptyString)})

(* C27 as stated: when the client stops it has received every non-reserved *)
(* key of the store that begins with the prefix exactly once, in ascending *)
(* order, also when the reserved key lies between matching keys.           *)
C27_IterationReceivesEveryKey ==
    client[Client].done =>
       client[Client].received = C27_Matching(db, client[Client].key_prefix)

(* While it runs the client has received a beginning of those keys: no key *)
(* twice, none out of order, none that does not match.                     *)
C27_ReceivedIsPrefixOfMatching ==
    LET m == C27_Matching(db, client[Client].key_prefix)
    IN /\ Len(client[Client].received) <= Len(m)
       /\ client[Client].received = SubSeq(m, 1, Len(client[Client].received))

(* The client has stopped on a store that holds the reserved key between   *)
(* two matching keys.                                                      *)
C27_Witness ==
    /\ client[Client].done
    /\ {KEY_A, GLOBAL_VERSION_KEY, KEY_W} \subseteq DOMAIN db
    /\ client[Client].page_size = Some(1)
    /\ client[Client].received = <<KEY_A>>


(***************************************************************************)
(* SpecTenant: the table vss_db with the rows of several user_tokens and   *)
(* store_ids.  Its primary key is (user_token, store_id, key); every       *)
(* statement of the handlers binds the request's user_token and store_id   *)
(* in its WHERE clause or in the row it inserts.  Select is the rows a     *)
(* statement with these bindings can match, as a table of one store;       *)
(* StoreWrites installs a transaction's writes, which carry the same       *)
(* bindings.  One client sends whole requests, one after the other, for    *)
(* any of three stores: two of one user and one, of the same store_id, of  *)
(* another user.                                                           *)
(***************************************************************************)
StoreIds == {"s1", "s2"}
Tenants == {<<"alice", "s1">>, <<"alice", "s2">>, <<"bob", "s1">>}

(* Fault: the statements match rows on user_token and key alone.           *)
Select_any_store(table, user_token, store_id) ==
    LET own == {pk \in DOMAIN table : pk[1] = user_token}
    IN [k \in {pk[3] : pk \in own} |-> table[CHOOSE pk \in own : pk[3] = k]]

(* WHERE user_token = $1 AND store_id = $2                                 *)
Select(table, user_token, store_id) ==
    LET own == {pk \in DOMAIN table : pk[1] = user_token /\ pk[2] = store_id}
    IN [k \in {pk[3] : pk \in own} |-> table[<<user_token, store_id, k>>]]

StoreWrites(table, user_token, store_id, w) ==
    LET deleted == {<<user_token, store_id, k>> : k \in {x \in DOMAIN w : w[x].deleted}}
        written == {<<user_token, store_id, k>> : k \in {x \in DOMAIN w : ~w[x].deleted}}
    IN [pk \in (DOMAIN table \cup written) \ deleted |->
          IF pk \in written THEN RowOf(w[pk[3]].value, w[pk[3]].version) ELSE table[pk]]

(* put's two loops on the rows t of the request's store                    *)
RECURSIVE ExecuteBatch(_, _, _, _, _)
ExecuteBatch(t, w, results, vss_put_records, vss_delete_records) ==
    IF vss_put_records # <<>>
    THEN LET res == execute_put_object_query(Overlay(t, w), Head(vss_put_records))
         IN ExecuteBatch(t, AddWrite(w, res.write), Append(results, res.num_rows),
                         Tail(vss_put_records), vss_delete_records)
    ELSE IF vss_delete_records # <<>>
    THEN LET res == execute_delete_object_query(Overlay(t, w), Head(vss_delete_records))
         IN ExecuteBatch(t, AddWrite(w, res.write), Append(results, res.num_rows),
                         <<>>, Tail(vss_delete_records))
    ELSE [batch_results |-> results, writes |-> w]

(* The response of a request and the writes it commits, on the rows t its  *)
(* statements can match.                                                   *)
PutOutcome(t, transaction_items, global_version, delete_items) ==
    LET vss_put_records ==
           [i \in 1..Len(transaction_items) |-> build_vss_record(transaction_items[i])]
              \o (IF IsSome(global_version)
                  THEN <<GlobalVersionRecord(Unwrap(global_version))>> ELSE <<>>)
        vss_delete_records ==
           [i \in 1..Len(delete_items) |-> build_vss_record(delete_items[i])]
        run == ExecuteBatch(t, NoWrites, <<>>, vss_put_records, vss_delete_records)
    IN IF HasZero(run.batch_results)
       THEN [response |-> Resp("put", "Conflict"), writes |-> NoWrites]
       ELSE [response |-> Resp("put", "ok"), writes |-> run.writes]

GetOutcome(t, key) ==
    [response |-> [Resp("get", GetResponse(t, key).result)
                     EXCEPT !.kvs = GetResponse(t, key).kvs],
     writes |-> NoWrites]

DeleteOutcome(t, key_value) ==
    [response |-> Resp("delete", "ok"),
     writes |-> AddWrite(NoWrites,
                         execute_delete_object_query(t, build_vss_record(key_value)).write)]

ListOutcome(t, key_prefix, page_token, page_size) ==
    [response |-> ListResponse(t, [key_prefix |-> key_prefix, page_token |-> page_token,
                                   page_size |-> page_size,
                                   global_version |->
                                      IF page_token = None THEN Some(GlobalVersionOf(t))
                                      ELSE None]),
     writes |-> NoWrites]

(* A request is its operation, its user_token, its store_id and the rest   *)
(* of its fields in the order of its message.                              *)
Request(op, user_token, store_id, fields) == <<op, user_token, store_id, fields>>

Outcome(t, r) ==
    CASE r[1] = "get" -> GetOutcome(t, r[4][1])
      [] r[1] = "put" -> PutOutcome(t, r[4][1], r[4][2], r[4][3])
      [] r[1] = "delete" -> DeleteOutcome(t, r[4][1])
      [] r[1] = "list" -> ListOutcome(t, r[4][1], r[4][2], r[4][3])

(* The handler of request r runs to its end on the table.                  *)
Handle(p, r) ==
    /\ pc[p] = "idle"
    /\ LET outcome == Outcome(Select(vss_db, r[2], r[3]), r)
       IN /\ last' = [last EXCEPT ![p] = outcome.response]
          /\ vss_db' = StoreWrites(vss_db, r[2], r[3], outcome.writes)
    /\ hist' = [hist EXCEPT ![p] = SetToBag({r})]
    /\ UNCHANGED pvars_but_last

TenantGet(p, user_token, store_id, key) ==
    Handle(p, Request("get", user_token, store_id, <<key>>))

TenantPut(p, user_token, store_id, transaction_items, global_version, delete_items) ==
    Handle(p, Request("put", user_token, store_id,
                      <<transaction_items, global_version, delete_items>>))

TenantDelete(p, user_token, store_id, key_value) ==
    Handle(p, Request("delete", user_token, store_id, <<key_value>>))

TenantList(p, user_token, store_id, key_prefix, page_token, page_size) ==
    Handle(p, Request("list", user_token, store_id, <<key_prefix, page_token, page_size>>))

(* The batches of the put requests: transaction_items, global_version and  *)
(* delete_items.                                                           *)
TenantBatches ==
    {<<transaction_items, global_version, <<>>>> :
        transaction_items \in {<<>>, <<KeyValue(KEY_A, "A", 0)>>},
        global_version \in {None, Some(0), Some(INITIAL_RECORD_VERSION)}}
      \cup {<<<<>>, None, <<KeyValue(KEY_A, EmptyBytes, INITIAL_RECORD_VERSION)>>>>}
TenantKeyValues ==
    {KeyValue(KEY_A, EmptyBytes, -1), KeyValue(GLOBAL_VERSION_KEY, EmptyBytes, -1)}

TenantNext ==
    \/ \E tenant \in Tenants, key \in Keys :
          TenantGet(Client, tenant[1], tenant[2], key)
             /\ UNCHANGED <<server, pool, client, cdb, seen, concurrent, n_success>>
    \/ \E tenant \in Tenants, batch \in TenantBatches :
          TenantPut(Client, tenant[1], tenant[2], batch[1], batch[2], batch[3])
             /\ UNCHANGED <<server, pool, client, cdb, seen, concurrent, n_success>>
    \/ \E tenant \in Tenants, key_value \in TenantKeyValues :
          TenantDelete(Client, tenant[1], tenant[2], key_value)
             /\ UNCHANGED <<server, pool, client, cdb, seen, concurrent, n_success>>
    \/ \E tenant \in Tenants :
          TenantList(Client, tenant[1], tenant[2], None, None, None)
             /\ UNCHANGED <<server, pool, client, cdb, seen, concurrent, n_success>>

SpecTenant == Init /\ [][TenantNext]_vars

(* The records of (user_token, store_id) in the table, by key.             *)
C28_Own(table, user_token, store_id) ==
    [k \in {key \in Keys : <<user_token, store_id, key>> \in DOMAIN table} |->
        table[<<user_token, store_id, k>>]]

C28_Request == CHOOSE r \in BagToSet(hist'[Client]) : TRUE

(* C28: a request with user_token U and store_id S leaves every record of  *)
(* any other user_token or store_id as it was; its response, with its      *)
(* Conflict decision and its global_version, and the records of (U, S) it  *)
(* leaves are those the records of (U, S) alone give.                      *)
C28_TenantIsolation ==
    [][LET r == C28_Request
           own == C28_Own(vss_db, r[2], r[3])
           outcome == Outcome(own, r)
       IN /\ \A pk \in DOMAIN vss_db \cup DOMAIN vss_db' :
                pk[1] # r[2] \/ pk[2] # r[3] =>
                   /\ pk \in DOMAIN vss_db
                   /\ pk \in DOMAIN vss_db'
                   /\ vss_db'[pk] = vss_db[pk]
          /\ last'[Client] = outcome.response
          /\ C28_Own(vss_db', r[2], r[3]) = Overlay(own, outcome.writes)]_vars

(* A put of alice for store s1 with global_version 0 and no items has      *)
(* ended in Conflict, that store holding the reserved key, while alice's   *)
(* store s2 and bob's store s1 hold KEY_A and no reserved record.          *)
C28_Witness ==
    /\ last[Client].op = "put"
    /\ last[Client].result = "Conflict"
    /\ hist[Client] = SetToBag({Request("put", "alice", "s1", <<<<>>, Some(0), <<>>>>)})
    /\ DOMAIN vss_db = {<<"alice", "s1", GLOBAL_VERSION_KEY>>,
                        <<"alice", "s2", KEY_A>>, <<"bob", "s1", KEY_A>>}


(***************************************************************************)
(* SpecPool: two clients send one request each, and the handlers share a   *)
(* pool of PoolSize connections.  pool.at[p] is the pool.get() the handler *)
(* of p has come to ("get", "put", "delete", and for list_key_versions     *)
(* "list_get", the one inside its call of get, and "list_query"),          *)
(* pool.waiting[p] whether it still awaits it, pool.held[p] the            *)
(* connections it holds.  A connection goes back to the pool when the      *)
(* function that acquired it returns, by whichever path.                   *)
(***************************************************************************)

(* The handler of p comes to the pool.get().await of site                  *)
ComesTo(p, site) ==
    pool' = [pool EXCEPT !.at[p] = site, !.waiting[p] = TRUE]

(* pool.get().await returns a connection                                   *)
Acquire(p) ==
    /\ pool.waiting[p]
    /\ pool.idle > 0
    /\ pool' = [pool EXCEPT !.idle = @ - 1, !.held[p] = @ + 1, !.waiting[p] = FALSE]
    /\ UNCHANGED <<pvars, server, vss_db, client>>

(* The handler of p runs on the connection it acquired at site             *)
WithConnection(p, site) ==
    /\ pool.at[p] = site
    /\ ~pool.waiting[p]
    /\ pool.held[p] > 0

(* The function returns and its connection is dropped: back to the pool    *)
Release(p) ==
    pool' = [pool EXCEPT !.idle = @ + 1, !.held[p] = @ - 1, !.at[p] = "none"]

(* Fault: list_key_versions keeps the connection of its get while it       *)
(* awaits the one for the listing.                                         *)
GetReturnsToList_keeps_connection(p) ==
    pool' = [pool EXCEPT !.at[p] = "list_query", !.waiting[p] = TRUE]

(* self.get(..).await? returns in list_key_versions, which goes on to its  *)
(* own pool.get()                                                          *)
GetReturnsToList(p) ==
    pool' = [pool EXCEPT !.idle = @ + 1, !.held[p] = @ - 1,
                        !.at[p] = "list_query", !.waiting[p] = TRUE]

Arrive(p, site) ==
    /\ Fresh(p)
    /\ pool.at[p] = "none"
    /\ ComesTo(p, site)
    /\ UNCHANGED <<pvars, server, vss_db, client>>

PoolSites == {"get", "put", "delete", "list_get"}
PoolPutItems == {KeyValue(KEY_A, "A", ver) : ver \in {-1, 0}}
PoolDeleteItems == {KeyValue(KEY_A, EmptyBytes, -1)}

PoolNext ==
    \E p \in Procs :
       \/ \E site \in PoolSites :
             Arrive(p, site) /\ UNCHANGED <<cdb, hist, seen, concurrent, n_success>>
       \/ Acquire(p) /\ UNCHANGED <<cdb, hist, seen, concurrent, n_success>>
       \/ /\ WithConnection(p, "get") /\ Get(p, KEY_A) /\ Release(p)
          /\ UNCHANGED <<server, vss_db, client, cdb, hist, seen, concurrent, n_success>>
       \/ /\ WithConnection(p, "put") /\ BeginPut(p) /\ UNCHANGED pool
          /\ UNCHANGED <<server, vss_db, client, cdb, hist, seen, concurrent, n_success>>
       \/ \E kv \in PoolPutItems :
             /\ WithConnection(p, "put") /\ PutItem(p, kv) /\ UNCHANGED pool
             /\ UNCHANGED <<server, vss_db, client, cdb, hist, seen, concurrent, n_success>>
       \/ /\ WithConnection(p, "put") /\ PutStatementFails(p) /\ Release(p)
          /\ UNCHANGED <<server, vss_db, client, cdb, hist, seen, concurrent, n_success>>
       \/ /\ WithConnection(p, "put") /\ PutFinish(p) /\ Release(p)
          /\ UNCHANGED <<server, vss_db, client, cdb, hist, seen, concurrent, n_success>>
       \/ \E kv \in PoolDeleteItems :
             /\ WithConnection(p, "delete") /\ DeleteExecute(p, kv) /\ UNCHANGED pool
             /\ UNCHANGED <<server, vss_db, client, cdb, hist, seen, concurrent, n_success>>
       \/ /\ WithConnection(p, "delete") /\ DeleteFinish(p) /\ Release(p)
          /\ UNCHANGED <<server, vss_db, client, cdb, hist, seen, concurrent, n_success>>
       \/ /\ WithConnection(p, "list_get")
          /\ ListGetGlobalVersion(p, None, None, None)
          /\ GetReturnsToList(p)
          /\ UNCHANGED <<server, vss_db, client, cdb, hist, seen, concurrent, n_success>>
       \/ \E page_token \in {Some(KEY_A)} :
             /\ Fresh(p) /\ pool.at[p] = "none"
             /\ ListGetGlobalVersion(p, None, page_token, None)
             /\ ComesTo(p, "list_query")
             /\ UNCHANGED <<server, vss_db, client, cdb, hist, seen, concurrent, n_success>>
       \/ /\ WithConnection(p, "list_query") /\ ListQuery(p) /\ Release(p)
          /\ UNCHANGED <<server, vss_db, client, cdb, hist, seen, concurrent, n_success>>

SpecPool == Init /\ [][PoolNext]_vars

(* The steps of the handler of p once its request has arrived.  The        *)
(* runtime polls every task that can go on, the pool hands an idle         *)
(* connection to a waiting pool.get(), and the database answers.           *)
Progress(p) ==
    /\ pool.at[p] # "none" \/ pc[p] # "idle"
    /\ PoolNext
    /\ <<pc[p], pool.at[p], pool.waiting[p], n_items[p]>>'
          # <<pc[p], pool.at[p], pool.waiting[p], n_items[p]>>

SpecPoolFair == SpecPool /\ \A p \in Procs : WF_vars(Progress(p))

Requested(p) == pool.at[p] # "none"
Completed(p) == pool.at[p] = "none" /\ pc[p] = "idle" /\ last[p] # NoResp

C29_OneConnectionAtMost ==
    /\ \A p \in Procs :
          /\ pool.held[p] <= 1
          /\ (pool.at[p] = "none" \/ pool.waiting[p]) => pool.held[p] = 0
    /\ pool.idle >= 0
    /\ pool.idle + pool.held["p1"] + pool.held["p2"] = PoolSize

(* C29: no handler holds more than one connection of the pool, a handler   *)
(* that has returned or awaits pool.get() holds none (list_key_versions    *)
(* has given back the connection of its get when it awaits the one for the *)
(* listing), and with a pool of one connection every request that has      *)
(* arrived completes.                                                      *)
C29_PoolConnections ==
    /\ []C29_OneConnectionAtMost
    /\ \A p \in Procs : Requested(p) ~> Completed(p)

(* Both requests have completed, a first-page list_key_versions and a put  *)
(* that ended in Conflict, and the connection is back in the pool.         *)
C29_Witness ==
    /\ Completed("p1") /\ Completed("p2")
    /\ last["p1"].op = "list" /\ last["p1"].global_version # None
    /\ last["p2"].op = "put" /\ last["p2"].result = "Conflict"
    /\ pool.idle = PoolSize

====
